---- MODULE Spec2Model ----
(***************************************************************************)
(* Model of the graph-query server (src/index.js): the session cache of    *)
(* indexed graphs, the tool-call handler, the mutation engine, the         *)
(* verifier and the persistence manager.                                   *)
(*                                                                         *)
(* A JavaScript object is a function from its keys to its values; a Map is *)
(* a function from its keys; an array is a sequence.  A key that is absent *)
(* reads as `undefined`.                                                   *)
(***************************************************************************)
EXTENDS Integers, Sequences, FiniteSets, TLC

VARIABLES
    graphs,      \* the graph cache: absolute path -> indexed graph
    disk,        \* the file system: absolute path -> file
    lastCall,    \* the request the handler served last
    lastResult   \* the response it returned

vars == <<graphs, disk, lastCall, lastResult>>

----------------------------------------------------------------------------
(* JavaScript values *)

undefined == "<undefined>"

StringKeys ==
    {"id", "type", "label", "description", "file", "source", "target", "layer", "edgeType"}

Get(obj, key) == IF key \in DOMAIN obj THEN obj[key] ELSE undefined

Truthy(s) == s # undefined /\ s # ""

EmptyMap == [k \in {} |-> k]

MapSet(m, k, v) == [x \in DOMAIN m \cup {k} |-> IF x = k THEN v ELSE m[x]]

MapDelete(m, k) == [x \in DOMAIN m \ {k} |-> m[x]]

MapGetOr(m, k, d) == IF k \in DOMAIN m THEN m[k] ELSE d

Push(m, k, v) == MapSet(m, k, Append(MapGetOr(m, k, <<>>), v))

Range(s) == {s[i] : i \in DOMAIN s}

Includes(s, v) == \E i \in DOMAIN s : s[i] = v

(* a function's result: the graph as the call leaves it, and either the
   returned value or the error thrown *)
Return(graph, value) == [graph |-> graph, threw |-> FALSE, value |-> value]

Throw(graph, error) == [graph |-> graph, threw |-> TRUE, error |-> error]

----------------------------------------------------------------------------
(* The file system and JSON *)

(* the file system maps the paths of the files that exist to their text *)
existsSync(storage, path) == path \in DOMAIN storage

readFileSync(storage, path) == storage[path]

writeFileSync(storage, path, text) == MapSet(storage, path, text)

(* path.resolve: relative spellings are resolved against the working
   directory, absolute ones are returned as they are *)
IsAbsolute(p) == p \in {"/w/g.json", "/w/h.json", "/w/g.json.backup", "/w/h.json.backup"}

resolve(p) ==
    IF IsAbsolute(p) THEN p
    ELSE IF p = "g.json" THEN "/w/g.json"
    ELSE IF p = "h.json" THEN "/w/h.json"
    ELSE p

BackupPath(path) ==
    IF path = "/w/g.json" THEN "/w/g.json.backup"
    ELSE IF path = "/w/h.json" THEN "/w/h.json.backup"
    ELSE path

(* JSON.stringify leaves out the keys whose value is undefined *)
DropUndefined(obj) ==
    [k \in {x \in DOMAIN obj : ~(x \in StringKeys /\ obj[x] = undefined)} |-> obj[k]]

(* only the nodes and the edges are written *)
JSONstringify_NodesAndEdges(raw) ==
    [nodes |-> [i \in DOMAIN raw.nodes |-> DropUndefined(raw.nodes[i])],
     edges |-> [i \in DOMAIN raw.edges |-> DropUndefined(raw.edges[i])]]

JSONstringify(raw) ==
    LET nodes == [i \in DOMAIN raw.nodes |-> DropUndefined(raw.nodes[i])]
        edges == [i \in DOMAIN raw.edges |-> DropUndefined(raw.edges[i])]
    IN  IF "layers" \in DOMAIN raw
        THEN [nodes |-> nodes, edges |-> edges, layers |-> raw.layers]
        ELSE [nodes |-> nodes, edges |-> edges]

(* JSON.stringify of an array of nodes *)
JSONstringifyNodes(nodes) == [i \in DOMAIN nodes |-> DropUndefined(nodes[i])]

JSONparse(text) == text

----------------------------------------------------------------------------
(* Layers: an object whose keys keep their insertion order, i.e. a sequence
   of entries [name, ids] *)

LayerNames(layers) == {layers[i].name : i \in DOMAIN layers}

LayerIds(layers, name) ==
    LET i == CHOOSE j \in DOMAIN layers : layers[j].name = name
    IN  layers[i].ids

LayerSet(layers, name, ids) ==
    IF name \in LayerNames(layers)
    THEN [i \in DOMAIN layers |->
             IF layers[i].name = name THEN [name |-> name, ids |-> ids] ELSE layers[i]]
    ELSE Append(layers, [name |-> name, ids |-> ids])

----------------------------------------------------------------------------
(* loadGraph *)

IndexNodesById(nodes) ==
    [id \in {nodes[i].id : i \in DOMAIN nodes} |->
        LET last == CHOOSE i \in DOMAIN nodes :
                        /\ nodes[i].id = id
                        /\ \A j \in DOMAIN nodes : nodes[j].id = id => j <= i
        IN  nodes[last]]

IndexNodesByType(nodes) ==
    [type \in {Get(nodes[i], "type") : i \in DOMAIN nodes} |->
        SelectSeq(nodes, LAMBDA n : Get(n, "type") = type)]

IndexEdgesBySource(edges) ==
    [s \in {edges[i].source : i \in DOMAIN edges} |->
        SelectSeq(edges, LAMBDA e : e.source = s)]

IndexEdgesByTarget(edges) ==
    [t \in {edges[i].target : i \in DOMAIN edges} |->
        SelectSeq(edges, LAMBDA e : e.target = t)]

BuildIndexes(graph, absolutePath) ==
    [raw           |-> graph,
     nodeById      |-> IndexNodesById(graph.nodes),
     nodesByType   |-> IndexNodesByType(graph.nodes),
     edgesBySource |-> IndexEdgesBySource(graph.edges),
     edgesByTarget |-> IndexEdgesByTarget(graph.edges),
     path          |-> absolutePath]

(* loadGraph reading the file on every call *)
loadGraph_NoCache(cache, storage, graphPath) ==
    LET absolutePath == resolve(graphPath) IN
    IF ~existsSync(storage, absolutePath)
    THEN [graphs |-> cache, threw |-> TRUE,
          error |-> [message |-> "Graph file not found", path |-> absolutePath]]
    ELSE LET content == readFileSync(storage, absolutePath)
             indexed == BuildIndexes(JSONparse(content), absolutePath)
         IN  [graphs |-> MapSet(cache, absolutePath, indexed), threw |-> FALSE,
              graph |-> indexed]

(* loadGraph keeping the graph under the path as it was spelled *)
loadGraph_KeyedBySpelling(cache, storage, graphPath) ==
    LET absolutePath == resolve(graphPath) IN
    IF ~existsSync(storage, absolutePath)
    THEN [graphs |-> cache, threw |-> TRUE,
          error |-> [message |-> "Graph file not found", path |-> absolutePath]]
    ELSE IF graphPath \in DOMAIN cache
    THEN [graphs |-> cache, threw |-> FALSE, graph |-> cache[graphPath]]
    ELSE LET content == readFileSync(storage, absolutePath)
             indexed == BuildIndexes(JSONparse(content), absolutePath)
         IN  [graphs |-> MapSet(cache, graphPath, indexed), threw |-> FALSE,
              graph |-> indexed]

(* returns the cache as the call leaves it and the graph returned, or the
   error thrown *)
loadGraph(cache, storage, graphPath) ==
    LET absolutePath == resolve(graphPath) IN
    IF ~existsSync(storage, absolutePath)
    THEN [graphs |-> cache, threw |-> TRUE,
          error |-> [message |-> "Graph file not found", path |-> absolutePath]]
    ELSE IF absolutePath \in DOMAIN cache
    THEN [graphs |-> cache, threw |-> FALSE, graph |-> cache[absolutePath]]
    ELSE LET content == readFileSync(storage, absolutePath)
             indexed == BuildIndexes(JSONparse(content), absolutePath)
         IN  [graphs |-> MapSet(cache, absolutePath, indexed), threw |-> FALSE,
              graph |-> indexed]

(* the cache entry is kept *)
invalidateGraph_Kept(cache, graphPath) == cache

invalidateGraph(cache, graphPath) == MapDelete(cache, resolve(graphPath))

----------------------------------------------------------------------------
(* The query engine *)

(* a string as the sequence of its characters; every string of the model
   that is not listed has one character *)
Chars(s) ==
    CASE s = ""          -> <<>>
      [] s = "da"        -> <<"d", "a">>
      [] s = "db"        -> <<"d", "b">>
      [] s = "fb"        -> <<"f", "b">>
      [] s = "Ab"        -> <<"A", "b">>
      [] s = "zz"        -> <<"z", "z">>
      [] s = undefined   -> <<"u", "n", "d", "e", "f", "i", "n", "e", "d">>
      [] OTHER           -> <<s>>

LowerOf(c) ==
    CASE c = "A" -> "a"
      [] c = "B" -> "b"
      [] c = "C" -> "c"
      [] OTHER   -> c

toLowerCase(text) == [i \in DOMAIN text |-> LowerOf(text[i])]

(* String.prototype.includes *)
TextIncludes(text, part) ==
    \E k \in 0..(Len(text) - Len(part)) :
        \A i \in DOMAIN part : text[k + i] = part[i]

(* `${node.id} ${node.label} ${node.description || ''}`: a property that is
   undefined is written as the word undefined *)
SearchText(node) ==
    LET description == IF Truthy(Get(node, "description")) THEN node.description ELSE ""
    IN  Chars(Get(node, "id")) \o <<" ">> \o Chars(Get(node, "label")) \o <<" ">>
        \o Chars(description)

DefaultLimit == 20

(* layer && graph.raw.layers[layer] && !graph.raw.layers[layer].includes(node.id) *)
LayerExcludes(raw, layer, node) ==
    /\ Truthy(layer)
    /\ layer \in LayerNames(raw.layers)
    /\ ~Includes(LayerIds(raw.layers, layer), node.id)

(* results.length >= limit, tested after each push *)
LimitReached(results, limit) == Len(results) >= limit

(* the loop of searchNodes over raw.nodes from position i on *)
RECURSIVE SearchFrom(_, _, _, _, _, _, _)
SearchFrom(graph, queryLower, type, layer, limit, i, results) ==
    IF i > Len(graph.raw.nodes) THEN Return(graph, results)
    ELSE LET node == graph.raw.nodes[i] IN
         IF Truthy(type) /\ Get(node, "type") # type
         THEN SearchFrom(graph, queryLower, type, layer, limit, i + 1, results)
         ELSE IF Truthy(layer) /\ "layers" \notin DOMAIN graph.raw
         THEN Throw(graph, [message |-> "TypeError"])
         ELSE IF LayerExcludes(graph.raw, layer, node)
         THEN SearchFrom(graph, queryLower, type, layer, limit, i + 1, results)
         ELSE IF TextIncludes(toLowerCase(SearchText(node)), queryLower)
         THEN LET pushed == Append(results, node) IN
              IF LimitReached(pushed, limit)
              THEN Return(graph, pushed)
              ELSE SearchFrom(graph, queryLower, type, layer, limit, i + 1, pushed)
         ELSE SearchFrom(graph, queryLower, type, layer, limit, i + 1, results)

(* options: the type and the layer (undefined when not given) and the limit
   (when given) *)
searchNodes(graph, query, options) ==
    LET limit == IF "limit" \in DOMAIN options THEN options.limit ELSE DefaultLimit
    IN  SearchFrom(graph, toLowerCase(Chars(query)), Get(options, "type"),
                   Get(options, "layer"), limit, 1, <<>>)

(* findNodeLayer: the first layer, in the order of the keys, that lists the
   node; Object.entries of a missing layers object throws *)
findNodeLayer(graph, nodeId) ==
    IF "layers" \notin DOMAIN graph.raw
    THEN Throw(graph, [message |-> "TypeError"])
    ELSE LET layers == graph.raw.layers
             hits   == {i \in DOMAIN layers : Includes(layers[i].ids, nodeId)}
         IN  IF hits = {} THEN Return(graph, "null")
             ELSE Return(graph,
                         layers[CHOOSE i \in hits : \A j \in hits : i <= j].name)

(* {...graph.nodeById.get(id), edgeType}: the spread of undefined adds no
   property *)
SpreadWithEdgeType(graph, id, edgeType) ==
    LET node == IF id \in DOMAIN graph.nodeById THEN graph.nodeById[id] ELSE EmptyMap
    IN  MapSet(node, "edgeType", edgeType)

(* the null getNode returns for an id that is no node *)
NoNode == [null |-> TRUE]

getNode(graph, nodeId) ==
    IF nodeId \notin DOMAIN graph.nodeById THEN Return(graph, NoNode)
    ELSE LET incoming == MapGetOr(graph.edgesByTarget, nodeId, <<>>)
             outgoing == MapGetOr(graph.edgesBySource, nodeId, <<>>)
             layer    == findNodeLayer(graph, nodeId)
         IN  IF layer.threw THEN layer
             ELSE Return(graph,
                    [node     |-> graph.nodeById[nodeId],
                     incoming |-> [i \in DOMAIN incoming |->
                                     SpreadWithEdgeType(graph, incoming[i].source,
                                                        Get(incoming[i], "type"))],
                     outgoing |-> [i \in DOMAIN outgoing |->
                                     SpreadWithEdgeType(graph, outgoing[i].target,
                                                        Get(outgoing[i], "type"))],
                     layer    |-> layer.value])

(* the entries getNeighbors pushes for the edges of one bucket: an edge of
   another type than the one asked for, or whose other end is no node, is
   skipped *)
NeighborEntries(graph, edges, end, edgeType, direction) ==
    LET kept == SelectSeq(edges, LAMBDA e :
                    /\ ~(Truthy(edgeType) /\ Get(e, "type") # edgeType)
                    /\ e[end] \in DOMAIN graph.nodeById)
    IN  [i \in DOMAIN kept |->
            [node      |-> graph.nodeById[kept[i][end]],
             edgeType  |-> Get(kept[i], "type"),
             direction |-> direction]]

(* options: direction ('both' when not given) and edgeType (undefined when
   not given) *)
getNeighbors(graph, nodeId, options) ==
    LET direction == IF "direction" \in DOMAIN options THEN options.direction ELSE "both"
        edgeType  == Get(options, "edgeType")
        incoming  == IF direction \in {"incoming", "both"}
                     THEN NeighborEntries(graph, MapGetOr(graph.edgesByTarget, nodeId, <<>>),
                                          "source", edgeType, "incoming")
                     ELSE <<>>
        outgoing  == IF direction \in {"outgoing", "both"}
                     THEN NeighborEntries(graph, MapGetOr(graph.edgesBySource, nodeId, <<>>),
                                          "target", edgeType, "outgoing")
                     ELSE <<>>
    IN  incoming \o outgoing

DefaultMaxDepth == 5

MaxPaths == 3

(* a path is dropped one node later *)
TooLong_OffByOne(path, maxDepth) == Len(path) > maxDepth + 1

(* path.length > maxDepth: the path is dropped without expansion *)
TooLong(path, maxDepth) == Len(path) > maxDepth

(* the for loop of findPath over the outgoing edges of the last node of
   path, from position i on; st is [queue, visited, paths, returned] *)
RECURSIVE ExpandFrom(_, _, _, _, _)
ExpandFrom(outgoing, i, path, toId, st) ==
    IF i > Len(outgoing) THEN st
    ELSE LET next == outgoing[i].target IN
         IF next = toId
         THEN LET paths == Append(st.paths, Append(path, next)) IN
              IF Len(paths) >= MaxPaths
              THEN [st EXCEPT !.paths = paths, !.returned = TRUE]
              ELSE ExpandFrom(outgoing, i + 1, path, toId, [st EXCEPT !.paths = paths])
         ELSE IF next \notin st.visited
         THEN ExpandFrom(outgoing, i + 1, path, toId,
                         [st EXCEPT !.visited = @ \cup {next},
                                    !.queue = Append(@, Append(path, next))])
         ELSE ExpandFrom(outgoing, i + 1, path, toId, st)

(* a path that is too long stays at the head of the queue *)
WhileStep_ContinueBeforeShift(graph, toId, maxDepth, st) ==
    LET path     == Head(st.queue)
        current  == path[Len(path)]
        outgoing == MapGetOr(graph.edgesBySource, current, <<>>)
    IN  IF TooLong(path, maxDepth) THEN st
        ELSE ExpandFrom(outgoing, 1, path, toId, [st EXCEPT !.queue = Tail(@)])

(* one iteration of the while loop of findPath, for a queue that is not
   empty *)
WhileStep(graph, toId, maxDepth, st) ==
    LET path     == Head(st.queue)
        current  == path[Len(path)]
        shifted  == [st EXCEPT !.queue = Tail(@)]
        outgoing == MapGetOr(graph.edgesBySource, current, <<>>)
    IN  IF TooLong(path, maxDepth) THEN shifted
        ELSE ExpandFrom(outgoing, 1, path, toId, shifted)

(* the while loop of findPath *)
RECURSIVE WhileQueue(_, _, _, _)
WhileQueue(graph, toId, maxDepth, st) ==
    IF st.returned \/ st.queue = <<>> THEN st.paths
    ELSE LET path     == Head(st.queue)
             current  == path[Len(path)]
             shifted  == [st EXCEPT !.queue = Tail(@)]
             outgoing == MapGetOr(graph.edgesBySource, current, <<>>)
         IN  IF TooLong(path, maxDepth)
             THEN WhileQueue(graph, toId, maxDepth, shifted)
             ELSE WhileQueue(graph, toId, maxDepth,
                             ExpandFrom(outgoing, 1, path, toId, shifted))

(* the start node is not marked as visited *)
findPath_StartNotVisited(graph, fromId, toId, maxDepth) ==
    IF fromId = toId THEN <<<<fromId>>>>
    ELSE WhileQueue(graph, toId, maxDepth,
                    [queue |-> <<<<fromId>>>>, visited |-> {},
                     paths |-> <<>>, returned |-> FALSE])

findPath(graph, fromId, toId, maxDepth) ==
    IF fromId = toId THEN <<<<fromId>>>>
    ELSE WhileQueue(graph, toId, maxDepth,
                    [queue |-> <<<<fromId>>>>, visited |-> {fromId},
                     paths |-> <<>>, returned |-> FALSE])

(* getNodeTypes: the length of every bucket of nodesByType *)
getNodeTypes(graph) ==
    [type \in DOMAIN graph.nodesByType |-> Len(graph.nodesByType[type])]

----------------------------------------------------------------------------
(* The mutation engine *)

(* the node object addNode creates: file and line only when given *)
MakeNode(nodeData) ==
    LET inferred == IF "inferred" \in DOMAIN nodeData THEN nodeData.inferred ELSE FALSE
        base     == [id |-> Get(nodeData, "id"), type |-> Get(nodeData, "type"),
                     label |-> Get(nodeData, "label"),
                     description |-> Get(nodeData, "description"),
                     inferred |-> inferred]
        withFile == IF Truthy(Get(nodeData, "file"))
                    THEN MapSet(base, "file", nodeData.file) ELSE base
    IN  IF "line" \in DOMAIN nodeData /\ nodeData.line # 0
        THEN MapSet(withFile, "line", nodeData.line) ELSE withFile

(* addNode with the two validations in the other order *)
addNode_RequiredFieldsFirst(graph, nodeData) ==
    LET id    == Get(nodeData, "id")
        type  == Get(nodeData, "type")
        label == Get(nodeData, "label")
        node  == MakeNode(nodeData)
    IN  IF ~Truthy(id) \/ ~Truthy(type) \/ ~Truthy(label)
        THEN Throw(graph, [message |-> "Missing required fields: id, type, label"])
        ELSE IF id \in DOMAIN graph.nodeById
        THEN Throw(graph, [message |-> "Node already exists", id |-> id])
        ELSE Return([graph EXCEPT !.raw.nodes = Append(@, node),
                                  !.nodeById = MapSet(@, id, node),
                                  !.nodesByType = Push(@, type, node)],
                    [success |-> TRUE, node |-> node])

addNode(graph, nodeData) ==
    LET id    == Get(nodeData, "id")
        type  == Get(nodeData, "type")
        label == Get(nodeData, "label")
        node  == MakeNode(nodeData)
    IN  IF id \in DOMAIN graph.nodeById
        THEN Throw(graph, [message |-> "Node already exists", id |-> id])
        ELSE IF ~Truthy(id) \/ ~Truthy(type) \/ ~Truthy(label)
        THEN Throw(graph, [message |-> "Missing required fields: id, type, label"])
        ELSE Return([graph EXCEPT !.raw.nodes = Append(@, node),
                                  !.nodeById = MapSet(@, id, node),
                                  !.nodesByType = Push(@, type, node)],
                    [success |-> TRUE, node |-> node])

(* the edge object addEdge creates: layer and description only when given *)
MakeEdge(edgeData) ==
    LET base      == [source |-> Get(edgeData, "source"),
                      target |-> Get(edgeData, "target"),
                      type |-> Get(edgeData, "type")]
        withLayer == IF Truthy(Get(edgeData, "layer"))
                     THEN MapSet(base, "layer", edgeData.layer) ELSE base
    IN  IF Truthy(Get(edgeData, "description"))
        THEN MapSet(withLayer, "description", edgeData.description)
        ELSE withLayer

(* the duplicate test reading the wrong end of the edge *)
Duplicate_WrongEnd(existingEdges, target, type) ==
    \E i \in DOMAIN existingEdges :
        /\ existingEdges[i].source = target
        /\ Get(existingEdges[i], "type") = type

(* existingEdges.find(e => e.target === target && e.type === type) *)
Duplicate(existingEdges, target, type) ==
    \E i \in DOMAIN existingEdges :
        /\ existingEdges[i].target = target
        /\ Get(existingEdges[i], "type") = type

(* the new edge enters edgesBySource only *)
IndexEdge_SourceOnly(graph, edge) ==
    [graph EXCEPT !.edgesBySource = Push(@, edge.source, edge)]

(* the new edge enters both edge indexes *)
IndexEdge(graph, edge) ==
    [graph EXCEPT !.edgesBySource = Push(@, edge.source, edge),
                  !.edgesByTarget = Push(@, edge.target, edge)]

addEdge(graph, edgeData) ==
    LET source        == Get(edgeData, "source")
        target        == Get(edgeData, "target")
        type          == Get(edgeData, "type")
        existingEdges == MapGetOr(graph.edgesBySource, source, <<>>)
        duplicate     == Duplicate(existingEdges, target, type)
        edge          == MakeEdge(edgeData)
    IN  IF source \notin DOMAIN graph.nodeById
        THEN Throw(graph, [message |-> "Source node not found", id |-> source])
        ELSE IF target \notin DOMAIN graph.nodeById
        THEN Throw(graph, [message |-> "Target node not found", id |-> target])
        ELSE IF duplicate
        THEN Throw(graph, [message |-> "Edge already exists", source |-> source,
                           type |-> type, target |-> target])
        ELSE Return(IndexEdge([graph EXCEPT !.raw.edges = Append(@, edge)], edge),
                    [success |-> TRUE, edge |-> edge])

(* addToLayer creating the layer before it validates the node *)
addToLayer_CreateFirst(graph, nodeId, layerName) ==
    LET created == IF layerName \in LayerNames(graph.raw.layers)
                   THEN graph
                   ELSE [graph EXCEPT !.raw.layers = LayerSet(@, layerName, <<>>)]
        ids     == LayerIds(created.raw.layers, layerName)
    IN  IF nodeId \notin DOMAIN graph.nodeById
        THEN Throw(created, [message |-> "Node not found", id |-> nodeId])
        ELSE IF Includes(ids, nodeId)
        THEN Throw(created, [message |-> "Node already in layer", id |-> nodeId,
                             layer |-> layerName])
        ELSE Return([created EXCEPT !.raw.layers =
                                LayerSet(@, layerName, Append(ids, nodeId))],
                    [success |-> TRUE, layer |-> layerName, nodeId |-> nodeId])

(* addToLayer without the test for a node that is in the layer already *)
addToLayer_Unchecked(graph, nodeId, layerName) ==
    IF nodeId \notin DOMAIN graph.nodeById
    THEN Throw(graph, [message |-> "Node not found", id |-> nodeId])
    ELSE LET created == IF layerName \in LayerNames(graph.raw.layers)
                        THEN graph
                        ELSE [graph EXCEPT !.raw.layers = LayerSet(@, layerName, <<>>)]
             ids     == LayerIds(created.raw.layers, layerName)
         IN  Return([created EXCEPT !.raw.layers =
                                LayerSet(@, layerName, Append(ids, nodeId))],
                    [success |-> TRUE, layer |-> layerName, nodeId |-> nodeId])

addToLayer(graph, nodeId, layerName) ==
    IF nodeId \notin DOMAIN graph.nodeById
    THEN Throw(graph, [message |-> "Node not found", id |-> nodeId])
    ELSE IF "layers" \notin DOMAIN graph.raw
    THEN Throw(graph, [message |-> "TypeError"])
    ELSE LET created == IF layerName \in LayerNames(graph.raw.layers)
                        THEN graph
                        ELSE [graph EXCEPT !.raw.layers = LayerSet(@, layerName, <<>>)]
             ids     == LayerIds(created.raw.layers, layerName)
         IN  IF Includes(ids, nodeId)
             THEN Throw(created, [message |-> "Node already in layer", id |-> nodeId,
                                  layer |-> layerName])
             ELSE Return([created EXCEPT !.raw.layers =
                                     LayerSet(@, layerName, Append(ids, nodeId))],
                         [success |-> TRUE, layer |-> layerName, nodeId |-> nodeId])

(* only the outgoing edges of the node are dropped *)
CascadeEdges_OutgoingOnly(edges, nodeId) ==
    SelectSeq(edges, LAMBDA e : e.source # nodeId)

(* raw.edges without the edges connected to the node *)
CascadeEdges(edges, nodeId) ==
    SelectSeq(edges, LAMBDA e : e.source # nodeId /\ e.target # nodeId)

(* the layers are left as they are *)
RemoveFromLayers_Skipped(raw, nodeId) == raw

(* a layer that the removal empties is dropped *)
RemoveFromLayers_DropEmptied(raw, nodeId) ==
    IF "layers" \in DOMAIN raw
    THEN [raw EXCEPT !.layers =
             SelectSeq([i \in DOMAIN @ |->
                           [name |-> @[i].name,
                            ids  |-> SelectSeq(@[i].ids, LAMBDA id : id # nodeId)]],
                       LAMBDA l : l.ids # <<>>)]
    ELSE raw

(* the node leaves every layer; for-in over a missing layers object runs no
   iteration *)
RemoveFromLayers(raw, nodeId) ==
    IF "layers" \in DOMAIN raw
    THEN [raw EXCEPT !.layers =
             [i \in DOMAIN @ |->
                 [name |-> @[i].name,
                  ids  |-> SelectSeq(@[i].ids, LAMBDA id : id # nodeId)]]]
    ELSE raw

removeNode(graph, nodeId) ==
    IF nodeId \notin DOMAIN graph.nodeById
    THEN Throw(graph, [message |-> "Node not found", id |-> nodeId])
    ELSE LET node      == graph.nodeById[nodeId]
             type      == Get(node, "type")
             typeNodes == MapGetOr(graph.nodesByType, type, <<>>)
             edges     == CascadeEdges(graph.raw.edges, nodeId)
             nodes     == SelectSeq(graph.raw.nodes, LAMBDA n : n.id # nodeId)
             raw1      == [graph.raw EXCEPT !.edges = edges, !.nodes = nodes]
             raw2      == RemoveFromLayers(raw1, nodeId)
         IN  Return([graph EXCEPT
                        !.raw = raw2,
                        !.nodeById = MapDelete(@, nodeId),
                        !.nodesByType = MapSet(@, type,
                            SelectSeq(typeNodes, LAMBDA n : n.id # nodeId)),
                        !.edgesBySource = MapDelete(@, nodeId),
                        !.edgesByTarget = MapDelete(@, nodeId)],
                    [success |-> TRUE, removed |-> nodeId])

(* edges.find(e => e.target === target && e.type === type) *)
FindEdge(edges, target, type) ==
    \E i \in DOMAIN edges :
        edges[i].target = target /\ Get(edges[i], "type") = type

removeEdge(graph, source, target, type) ==
    LET edges == MapGetOr(graph.edgesBySource, source, <<>>)
        found == FindEdge(edges, target, type)
    IN  IF ~found
        THEN Throw(graph, [message |-> "Edge not found", source |-> source,
                           type |-> type, target |-> target])
        ELSE Return([graph EXCEPT
                        !.raw.edges = SelectSeq(@, LAMBDA e :
                            ~(e.source = source /\ e.target = target
                              /\ Get(e, "type") = type)),
                        !.edgesBySource = MapSet(@, source,
                            SelectSeq(MapGetOr(@, source, <<>>), LAMBDA e :
                                ~(e.target = target /\ Get(e, "type") = type))),
                        !.edgesByTarget = MapSet(@, target,
                            SelectSeq(MapGetOr(@, target, <<>>), LAMBDA e :
                                ~(e.source = source /\ Get(e, "type") = type)))],
                    [success |-> TRUE,
                     removed |-> [source |-> source, target |-> target, type |-> type]])

----------------------------------------------------------------------------
(* The verifier *)

RECURSIVE Concat(_)
Concat(ss) == IF ss = <<>> THEN <<>> ELSE Head(ss) \o Concat(Tail(ss))

Take(s, n) == SubSeq(s, 1, IF Len(s) < n THEN Len(s) ELSE n)

EdgeKey(e) == <<e.source, Get(e, "type"), e.target>>

(* only the source of an edge is looked up *)
EdgeIssues_SourceOnly(graph) ==
    Concat([i \in DOMAIN graph.raw.edges |->
        LET e == graph.raw.edges[i] IN
        IF e.source \notin DOMAIN graph.nodeById
        THEN <<[issue |-> "Edge has invalid source", source |-> e.source,
                type |-> Get(e, "type"), target |-> e.target]>>
        ELSE <<>>])

EdgeIssues(graph) ==
    Concat([i \in DOMAIN graph.raw.edges |->
        LET e == graph.raw.edges[i] IN
        (IF e.source \notin DOMAIN graph.nodeById
         THEN <<[issue |-> "Edge has invalid source", source |-> e.source,
                 type |-> Get(e, "type"), target |-> e.target]>>
         ELSE <<>>)
        \o
        (IF e.target \notin DOMAIN graph.nodeById
         THEN <<[issue |-> "Edge has invalid target", source |-> e.source,
                 type |-> Get(e, "type"), target |-> e.target]>>
         ELSE <<>>)])

LayerIssues(graph) ==
    Concat([i \in DOMAIN graph.raw.layers |->
        LET l == graph.raw.layers[i] IN
        Concat([j \in DOMAIN l.ids |->
            IF l.ids[j] \notin DOMAIN graph.nodeById
            THEN <<[issue |-> "Layer references non-existent node",
                    layer |-> l.name, nodeId |-> l.ids[j]]>>
            ELSE <<>>])])

Orphaned(graph) ==
    LET isOrphan(n) ==
            /\ Len(MapGetOr(graph.edgesByTarget, n.id, <<>>)) = 0
            /\ Len(MapGetOr(graph.edgesBySource, n.id, <<>>)) = 0
        nodes == SelectSeq(graph.raw.nodes, isOrphan)
    IN  [i \in DOMAIN nodes |-> nodes[i].id]

Duplicates(graph) ==
    LET edges == graph.raw.edges
        seen(i) == \E j \in 1..(i - 1) : EdgeKey(edges[j]) = EdgeKey(edges[i])
        idx == {i \in DOMAIN edges : seen(i)}
    IN  Cardinality(idx)

NodesNotInLayers(graph) ==
    LET inLayers == UNION {Range(graph.raw.layers[i].ids) : i \in DOMAIN graph.raw.layers}
        nodes == SelectSeq(graph.raw.nodes, LAMBDA n : n.id \notin inLayers)
    IN  [i \in DOMAIN nodes |-> nodes[i].id]

verifyGraph(graph) ==
    IF "layers" \notin DOMAIN graph.raw
    THEN Throw(graph, [message |-> "TypeError"])
    ELSE
    LET orphaned   == Orphaned(graph)
        duplicates == Duplicates(graph)
        notInLayer == NodesNotInLayers(graph)
        issues     == EdgeIssues(graph) \o LayerIssues(graph)
                      \o (IF duplicates > 0
                          THEN <<[issue |-> "duplicate edges found", count |-> duplicates]>>
                          ELSE <<>>)
        warnings   == (IF Len(orphaned) > 0
                       THEN <<[warning |-> "orphaned nodes", count |-> Len(orphaned),
                               ids |-> Take(orphaned, 5)]>>
                       ELSE <<>>)
                      \o (IF Len(notInLayer) > 0
                          THEN <<[warning |-> "nodes not in any layer",
                                  count |-> Len(notInLayer), ids |-> Take(notInLayer, 5)]>>
                          ELSE <<>>)
    IN  Return(graph,
               [valid    |-> Len(issues) = 0,
                issues   |-> issues,
                warnings |-> warnings,
                stats    |-> [nodes    |-> Len(graph.raw.nodes),
                              edges    |-> Len(graph.raw.edges),
                              layers   |-> Len(graph.raw.layers),
                              orphaned |-> Len(orphaned)]])

----------------------------------------------------------------------------
(* The persistence manager *)

(* the order of < on the strings used as node ids *)
Alphabet == <<"a", "b", "c", "d", "z">>

Rank(s) == CHOOSE i \in DOMAIN Alphabet : Alphabet[i] = s

(* the comparator of saveGraph: by source, then by target *)
(* only the sources are compared *)
Compare_SourceOnly(a, b) ==
    IF Rank(a.source) < Rank(b.source) THEN -1
    ELSE IF Rank(a.source) > Rank(b.source) THEN 1
    ELSE 0

Compare(a, b) ==
    IF Rank(a.source) < Rank(b.source) THEN -1
    ELSE IF Rank(a.source) > Rank(b.source) THEN 1
    ELSE IF Rank(a.target) < Rank(b.target) THEN -1
    ELSE IF Rank(a.target) > Rank(b.target) THEN 1
    ELSE 0

(* Array.prototype.sort is stable: equal elements keep their order *)
RECURSIVE SortEdges(_)
SortEdges(edges) ==
    IF Len(edges) <= 1 THEN edges
    ELSE LET n      == Len(edges)
             last   == edges[n]
             sorted == SortEdges(SubSeq(edges, 1, n - 1))
             k      == Cardinality({i \in DOMAIN sorted : Compare(sorted[i], last) <= 0})
         IN  SubSeq(sorted, 1, k) \o <<last>> \o SubSeq(sorted, k + 1, n - 1)

(* saveGraph taking the backup after it has written the graph file *)
saveGraph_BackupAfterWrite(cache, storage, graph, options, fault) ==
    LET backupPath == BackupPath(graph.path)
        graph1     == IF options.sort
                      THEN [graph EXCEPT !.raw.edges = SortEdges(@)]
                      ELSE graph
        content    == JSONstringify(graph1.raw)
        storage1   == writeFileSync(storage, graph.path, content)
        storage2   == IF options.backup
                      THEN writeFileSync(storage1, backupPath,
                                         readFileSync(storage1, graph.path))
                      ELSE storage1
    IN  IF fault = "write"
        THEN [graphs |-> MapSet(cache, graph.path, graph1), disk |-> storage,
              threw |-> TRUE,
              error |-> [message |-> "write failed", path |-> graph.path]]
        ELSE [graphs |-> invalidateGraph(MapSet(cache, graph.path, graph1), graph.path),
              disk |-> storage2, threw |-> FALSE,
              value |-> [success |-> TRUE, path |-> graph.path,
                         backup |-> IF options.backup THEN backupPath ELSE "null"]]

(* fault tells whether the write of the graph file fails in this run:
   "none" or "write" *)
saveGraph(cache, storage, graph, options, fault) ==
    LET backupPath == BackupPath(graph.path)
        doBackup   == options.backup /\ existsSync(storage, graph.path)
        storage1   == IF doBackup
                      THEN writeFileSync(storage, backupPath,
                                         readFileSync(storage, graph.path))
                      ELSE storage
        graph1     == IF options.sort
                      THEN [graph EXCEPT !.raw.edges = SortEdges(@)]
                      ELSE graph
        content    == JSONstringify(graph1.raw)
        storage2   == writeFileSync(storage1, graph.path, content)
    IN  IF fault = "write"
        THEN [graphs |-> MapSet(cache, graph.path, graph1), disk |-> storage1,
              threw |-> TRUE,
              error |-> [message |-> "write failed", path |-> graph.path]]
        ELSE [graphs |-> invalidateGraph(MapSet(cache, graph.path, graph1), graph.path),
              disk |-> storage2, threw |-> FALSE,
              value |-> [success |-> TRUE, path |-> graph.path,
                         backup |-> IF options.backup THEN backupPath ELSE "null"]]

----------------------------------------------------------------------------
(* Bounds of the model *)

MaxEdges == 2     \* length of raw.edges

MaxBucket == 2    \* length of a bucket of an edge index

Fits(graph) ==
    /\ Len(graph.raw.edges) <= MaxEdges
    /\ \A k \in DOMAIN graph.edgesBySource : Len(graph.edgesBySource[k]) <= MaxBucket
    /\ \A k \in DOMAIN graph.edgesByTarget : Len(graph.edgesByTarget[k]) <= MaxBucket

----------------------------------------------------------------------------
(* The tool-call handler: every call acquires the graph with loadGraph and
   then runs the tool; an error thrown on the way becomes an error response *)

Reply(name, args, cache, storage, out) ==
    /\ graphs' = cache
    /\ disk' = storage
    /\ lastCall' = [name |-> name, arguments |-> args]
    /\ lastResult' = IF out.threw
                     THEN [isError |-> TRUE, error |-> out.error]
                     ELSE [isError |-> FALSE, value |-> out.value]

(* every change of the graph is written to its file at once *)
OnGraph_WriteThrough(name, args, ld, out) ==
    /\ Fits(out.graph)
    /\ Reply(name, args, MapSet(ld.graphs, ld.graph.path, out.graph),
             writeFileSync(disk, ld.graph.path, JSONstringify(out.graph.raw)), out)

(* a tool that works on the cached graph in place *)
OnGraph(name, args, ld, out) ==
    /\ Fits(out.graph)
    /\ Reply(name, args, MapSet(ld.graphs, ld.graph.path, out.graph), disk, out)

add_node(args) ==
    LET ld == loadGraph(graphs, disk, args.graph_path) IN
    IF ld.threw THEN Reply("add_node", args, ld.graphs, disk, ld)
    ELSE OnGraph("add_node", args, ld, addNode(ld.graph, args))

add_edge(args) ==
    LET ld == loadGraph(graphs, disk, args.graph_path) IN
    IF ld.threw THEN Reply("add_edge", args, ld.graphs, disk, ld)
    ELSE OnGraph("add_edge", args, ld, addEdge(ld.graph, args))

add_to_layer(args) ==
    LET ld == loadGraph(graphs, disk, args.graph_path) IN
    IF ld.threw THEN Reply("add_to_layer", args, ld.graphs, disk, ld)
    ELSE OnGraph("add_to_layer", args, ld,
                 addToLayer(ld.graph, Get(args, "node_id"), Get(args, "layer")))

remove_node(args) ==
    LET ld == loadGraph(graphs, disk, args.graph_path) IN
    IF ld.threw THEN Reply("remove_node", args, ld.graphs, disk, ld)
    ELSE OnGraph("remove_node", args, ld, removeNode(ld.graph, Get(args, "node_id")))

remove_edge(args) ==
    LET ld == loadGraph(graphs, disk, args.graph_path) IN
    IF ld.threw THEN Reply("remove_edge", args, ld.graphs, disk, ld)
    ELSE OnGraph("remove_edge", args, ld,
                 removeEdge(ld.graph, Get(args, "source"), Get(args, "target"),
                            Get(args, "type")))

verify_graph(args) ==
    LET ld == loadGraph(graphs, disk, args.graph_path) IN
    IF ld.threw THEN Reply("verify_graph", args, ld.graphs, disk, ld)
    ELSE OnGraph("verify_graph", args, ld, verifyGraph(ld.graph))

(* a tool that reads the graph and returns its answer as JSON text *)
search_graph(args) ==
    LET ld == loadGraph(graphs, disk, args.graph_path) IN
    IF ld.threw THEN Reply("search_graph", args, ld.graphs, disk, ld)
    ELSE LET options == [k \in DOMAIN args \cap {"type", "layer", "limit"} |-> args[k]]
             out     == searchNodes(ld.graph, args.query, options)
         IN  Reply("search_graph", args, ld.graphs, disk,
                   IF out.threw THEN out
                   ELSE Return(ld.graph, JSONstringifyNodes(out.value)))

find_path(args) ==
    LET ld == loadGraph(graphs, disk, args.graph_path) IN
    IF ld.threw THEN Reply("find_path", args, ld.graphs, disk, ld)
    ELSE LET maxDepth == IF "max_depth" \in DOMAIN args
                         THEN args.max_depth ELSE DefaultMaxDepth
         IN  Reply("find_path", args, ld.graphs, disk,
                   Return(ld.graph,
                          findPath(ld.graph, args.from_id, args.to_id, maxDepth)))

(* JSON.stringify of the answer of getNode *)
JSONstringifyNode(result) ==
    [node     |-> DropUndefined(result.node),
     incoming |-> JSONstringifyNodes(result.incoming),
     outgoing |-> JSONstringifyNodes(result.outgoing),
     layer    |-> result.layer]

get_node(args) ==
    LET ld == loadGraph(graphs, disk, args.graph_path) IN
    IF ld.threw THEN Reply("get_node", args, ld.graphs, disk, ld)
    ELSE LET out == getNode(ld.graph, args.node_id) IN
         Reply("get_node", args, ld.graphs, disk,
               IF out.threw THEN out
               ELSE IF out.value = NoNode
               THEN Throw(ld.graph, [message |-> "Node not found", id |-> args.node_id])
               ELSE Return(ld.graph, JSONstringifyNode(out.value)))

get_neighbors(args) ==
    LET ld == loadGraph(graphs, disk, args.graph_path) IN
    IF ld.threw THEN Reply("get_neighbors", args, ld.graphs, disk, ld)
    ELSE LET given   == DOMAIN args \cap {"direction", "edge_type"}
             options == [k \in {IF g = "edge_type" THEN "edgeType" ELSE g : g \in given} |->
                            IF k = "edgeType" THEN args.edge_type ELSE args[k]]
             entries == getNeighbors(ld.graph, args.node_id, options)
         IN  Reply("get_neighbors", args, ld.graphs, disk,
                   Return(ld.graph,
                          [i \in DOMAIN entries |->
                              [entries[i] EXCEPT !.node = DropUndefined(@)]]))

get_node_types(args) ==
    LET ld == loadGraph(graphs, disk, args.graph_path) IN
    IF ld.threw THEN Reply("get_node_types", args, ld.graphs, disk, ld)
    ELSE Reply("get_node_types", args, ld.graphs, disk,
               Return(ld.graph, getNodeTypes(ld.graph)))

(* find_path step by step. The response of the call is not there while the
   loop of findPath runs: lastResult holds the queue, the visited set and
   the paths found so far *)
findPath_enter(args) ==
    LET ld == loadGraph(graphs, disk, args.graph_path) IN
    /\ "running" \notin DOMAIN lastResult
    /\ IF ld.threw THEN Reply("find_path", args, ld.graphs, disk, ld)
       ELSE IF args.from_id = args.to_id
       THEN Reply("find_path", args, ld.graphs, disk,
                  Return(ld.graph, <<<<args.from_id>>>>))
       ELSE /\ graphs' = ld.graphs
            /\ disk' = disk
            /\ lastCall' = [name |-> "find_path", arguments |-> args]
            /\ lastResult' = [isError |-> FALSE,
                              running |-> [queue |-> <<<<args.from_id>>>>,
                                           visited |-> {args.from_id},
                                           paths |-> <<>>, returned |-> FALSE]]

findPath_iterate ==
    /\ "running" \in DOMAIN lastResult
    /\ ~lastResult.running.returned
    /\ lastResult.running.queue # <<>>
    /\ LET args     == lastCall.arguments
           maxDepth == IF "max_depth" \in DOMAIN args
                       THEN args.max_depth ELSE DefaultMaxDepth
       IN  lastResult' = [lastResult EXCEPT !.running =
                             WhileStep(graphs[resolve(args.graph_path)], args.to_id,
                                       maxDepth, @)]
    /\ UNCHANGED <<graphs, disk, lastCall>>

findPath_return ==
    /\ "running" \in DOMAIN lastResult
    /\ lastResult.running.returned \/ lastResult.running.queue = <<>>
    /\ lastResult' = [isError |-> FALSE, value |-> lastResult.running.paths]
    /\ UNCHANGED <<graphs, disk, lastCall>>

(* the list_layer case of the handler: the nodes of the ids the layer lists,
   null for an id that is no node; a layer that is missing is an error *)
listLayer(graph, layerName) ==
    IF "layers" \notin DOMAIN graph.raw
    THEN Throw(graph, [message |-> "TypeError"])
    ELSE IF layerName \notin LayerNames(graph.raw.layers)
    THEN Throw(graph, [message |-> "Layer not found", layer |-> layerName])
    ELSE LET layer == LayerIds(graph.raw.layers, layerName)
         IN  Return(graph,
                    [i \in DOMAIN layer |->
                        IF layer[i] \in DOMAIN graph.nodeById
                        THEN DropUndefined(graph.nodeById[layer[i]])
                        ELSE NoNode])

(* fault "unlinked": another process removes the graph file after loadGraph
   has found it and before saveGraph looks for it *)
save_graph(args, fault) ==
    LET ld == loadGraph(graphs, disk, args.graph_path) IN
    IF ld.threw THEN Reply("save_graph", args, ld.graphs, disk, ld)
    ELSE LET options == [backup |-> ~("backup" \in DOMAIN args /\ args.backup = FALSE),
                         sort   |-> ~("sort" \in DOMAIN args /\ args.sort = FALSE)]
             storage == IF fault = "unlinked" THEN MapDelete(disk, ld.graph.path) ELSE disk
             out     == saveGraph(ld.graphs, storage, ld.graph, options, fault)
         IN  Reply("save_graph", args, out.graphs, out.disk, out)

----------------------------------------------------------------------------
(* The mutation engine on one graph file *)

G == "/w/g.json"

NodeA == [id |-> "a", type |-> "Workflow", label |-> "A", description |-> "da",
          inferred |-> FALSE]

NodeB == [id |-> "b", type |-> "Concept", label |-> "B", description |-> "db",
          inferred |-> FALSE]

EdgeAB == [source |-> "a", target |-> "b", type |-> "includes",
           layer |-> "workflow-to-conceptual"]

(* the graph of the end-to-end scenario *)
ScenarioDoc ==
    [nodes  |-> <<NodeA, NodeB>>,
     edges  |-> <<EdgeAB>>,
     layers |-> <<[name |-> "workflow", ids |-> <<"a">>],
                  [name |-> "conceptual", ids |-> <<"b">>]>>]

InitDocs == {ScenarioDoc}

AddNodeArgs ==
    { [graph_path |-> G, id |-> "a", type |-> "Workflow", label |-> "A",
       description |-> "da"],
      [graph_path |-> G, id |-> "b", type |-> "Concept", label |-> "B",
       description |-> "db"],
      [graph_path |-> G, id |-> "b", type |-> "Workflow", label |-> "fb",
       file |-> "b.ts", line |-> 10],
      [graph_path |-> G, id |-> "a", type |-> "Function"] }

AddEdgeArgs ==
    { [graph_path |-> G, source |-> "a", target |-> "b", type |-> "includes",
       layer |-> "workflow-to-conceptual"],
      [graph_path |-> G, source |-> "a", target |-> "b", type |-> "calls"],
      [graph_path |-> G, source |-> "b", target |-> "a", type |-> "calls"],
      [graph_path |-> G, source |-> "z", target |-> "a", type |-> "calls"],
      [graph_path |-> G, source |-> "a", target |-> "z", type |-> "calls"] }

AddToLayerArgs ==
    { [graph_path |-> G, node_id |-> "a", layer |-> "workflow"],
      [graph_path |-> G, node_id |-> "b", layer |-> "technical"],
      [graph_path |-> G, node_id |-> "z", layer |-> "technical"] }

RemoveNodeArgs == { [graph_path |-> G, node_id |-> n] : n \in {"a", "b", "z"} }

RemoveEdgeArgs ==
    { [graph_path |-> G, source |-> e.source, target |-> e.target, type |-> e.type] :
        e \in { a \in AddEdgeArgs : a.source # "z" /\ a.target # "z" } }

VerifyArgs == { [graph_path |-> G] }

NoCall == [name |-> "none"]

NoResult == [isError |-> FALSE]

Init ==
    /\ graphs = EmptyMap
    /\ \E doc \in InitDocs : disk = [p \in {G} |-> doc]
    /\ lastCall = NoCall
    /\ lastResult = NoResult

Next ==
    \/ \E args \in AddNodeArgs : add_node(args)
    \/ \E args \in AddEdgeArgs : add_edge(args)
    \/ \E args \in AddToLayerArgs : add_to_layer(args)
    \/ \E args \in RemoveNodeArgs : remove_node(args)
    \/ \E args \in RemoveEdgeArgs : remove_edge(args)
    \/ \E args \in VerifyArgs : verify_graph(args)

Spec == Init /\ [][Next]_vars

----------------------------------------------------------------------------
(* The persistence manager and the cache on one graph file: a few
   mutations, saves with every choice of options, and storage writes that
   may fail *)

StoreAddNodeArgs ==
    { [graph_path |-> G, id |-> "b", type |-> "Concept", label |-> "B"] }

StoreAddEdgeArgs ==
    { [graph_path |-> G, source |-> "a", target |-> "a", type |-> "calls"] }

StoreAddToLayerArgs == { [graph_path |-> G, node_id |-> "b", layer |-> "conceptual"] }

StoreRemoveNodeArgs == { [graph_path |-> G, node_id |-> "b"] }

StoreRemoveEdgeArgs ==
    { [graph_path |-> G, source |-> "a", target |-> "a", type |-> "calls"] }

StoreVerifyArgs == { [graph_path |-> "g.json"] }

SaveArgs ==
    { [graph_path |-> G],
      [graph_path |-> G, backup |-> FALSE],
      [graph_path |-> "g.json", sort |-> FALSE] }

StoreSearchArgs == { [graph_path |-> G, query |-> "b"] }

StoreFindPathArgs == { [graph_path |-> G, from_id |-> "a", to_id |-> "b"] }

Faults == {"none", "write"}

NextStore ==
    \/ \E args \in StoreAddNodeArgs : add_node(args)
    \/ \E args \in StoreAddEdgeArgs : add_edge(args)
    \/ \E args \in StoreAddToLayerArgs : add_to_layer(args)
    \/ \E args \in StoreRemoveNodeArgs : remove_node(args)
    \/ \E args \in StoreRemoveEdgeArgs : remove_edge(args)
    \/ \E args \in StoreVerifyArgs : verify_graph(args)
    \/ \E args \in StoreSearchArgs : search_graph(args)
    \/ \E args \in StoreFindPathArgs : find_path(args)
    \/ \E args \in SaveArgs, fault \in Faults : save_graph(args, fault)

SpecStore == Init /\ [][NextStore]_vars

----------------------------------------------------------------------------
(* The cache next to a file system that other processes use: between two
   calls the graph file may be removed or rewritten *)

EditedDoc ==
    [nodes  |-> <<NodeA>>,
     edges  |-> <<>>,
     layers |-> <<[name |-> "workflow", ids |-> <<"a">>]>>]

fileRemoved(path) ==
    /\ existsSync(disk, path)
    /\ disk' = MapDelete(disk, path)
    /\ UNCHANGED <<graphs, lastCall, lastResult>>

fileWritten(path, doc) ==
    /\ ~(existsSync(disk, path) /\ readFileSync(disk, path) = doc)
    /\ disk' = writeFileSync(disk, path, doc)
    /\ UNCHANGED <<graphs, lastCall, lastResult>>

NextFiles ==
    \/ \E args \in StoreAddNodeArgs : add_node(args)
    \/ \E args \in StoreAddEdgeArgs : add_edge(args)
    \/ \E args \in StoreAddToLayerArgs : add_to_layer(args)
    \/ \E args \in StoreRemoveNodeArgs : remove_node(args)
    \/ \E args \in StoreRemoveEdgeArgs : remove_edge(args)
    \/ \E args \in StoreVerifyArgs : verify_graph(args)
    \/ fileRemoved(G)
    \/ \E doc \in {ScenarioDoc, EditedDoc} : fileWritten(G, doc)

SpecFiles == Init /\ [][NextFiles]_vars

----------------------------------------------------------------------------
(* Queries on a graph that mutations have changed *)

QueryAddNodeArgs ==
    { [graph_path |-> G, id |-> "b", type |-> "Concept", label |-> "B",
       description |-> "db"] }

QueryAddEdgeArgs ==
    { [graph_path |-> G, source |-> "a", target |-> "b", type |-> "calls"],
      [graph_path |-> G, source |-> "b", target |-> "a", type |-> "calls"] }

QueryRemoveNodeArgs == { [graph_path |-> G, node_id |-> n] : n \in {"a", "b"} }

QueryRemoveEdgeArgs ==
    { [graph_path |-> G, source |-> "a", target |-> "b", type |-> "includes"] }

QueryFindPathArgs ==
    { [graph_path |-> G, from_id |-> "a", to_id |-> "b"],
      [graph_path |-> G, from_id |-> "a", to_id |-> "b", max_depth |-> 1],
      [graph_path |-> G, from_id |-> "b", to_id |-> "a", max_depth |-> 0],
      [graph_path |-> G, from_id |-> "b", to_id |-> "b", max_depth |-> 0] }

NextQuery ==
    \/ \E args \in QueryAddNodeArgs : add_node(args)
    \/ \E args \in QueryAddEdgeArgs : add_edge(args)
    \/ \E args \in QueryRemoveNodeArgs : remove_node(args)
    \/ \E args \in QueryRemoveEdgeArgs : remove_edge(args)
    \/ \E args \in QueryFindPathArgs : find_path(args)

SpecQuery == Init /\ [][NextQuery]_vars

----------------------------------------------------------------------------
(* findPath on a graph as loaded: the graph file holds six nodes and any
   selection of the edges below, in this order *)

MaxDepthArg == 3    \* the largest max_depth a call gives explicitly

PathNode(id) == [id |-> id, type |-> "Function", label |-> id, inferred |-> FALSE]

PathNodes == <<PathNode("a"), PathNode("b"), PathNode("c"), PathNode("t"),
               PathNode("v"), PathNode("w")>>

PathEdge(source, target) == [source |-> source, target |-> target, type |-> "calls"]

PathEdges == <<PathEdge("a", "b"), PathEdge("a", "c"), PathEdge("b", "c"),
               PathEdge("c", "t"), PathEdge("c", "v"), PathEdge("v", "w"),
               PathEdge("w", "t"), PathEdge("a", "t"), PathEdge("b", "t")>>

PathDocs ==
    { [nodes  |-> PathNodes,
       edges  |-> SelectSeq(PathEdges, LAMBDA e : e \in chosen),
       layers |-> <<>>] : chosen \in SUBSET Range(PathEdges) }

FindPathArgs ==
    { [graph_path |-> G, from_id |-> from, to_id |-> to] :
        from \in {"a", "b"}, to \in {"t", "a"} }
    \cup
    { [graph_path |-> G, from_id |-> from, to_id |-> to, max_depth |-> d] :
        from \in {"a", "b"}, to \in {"t", "a"}, d \in 0..MaxDepthArg }

InitPath ==
    /\ graphs = EmptyMap
    /\ \E doc \in PathDocs : disk = [p \in {G} |-> doc]
    /\ lastCall = NoCall
    /\ lastResult = NoResult

NextPath == \E args \in FindPathArgs : find_path(args)

SpecPath == InitPath /\ [][NextPath]_vars

----------------------------------------------------------------------------
(* searchNodes on a graph as loaded *)

MaxLimit == 2    \* the largest limit a call gives explicitly

NodeC == [id |-> "c", type |-> "Concept", label |-> "Ab", inferred |-> FALSE]

SearchLayers ==
    { <<[name |-> "workflow", ids |-> <<"a">>],
        [name |-> "conceptual", ids |-> <<"b", "c">>]>>,
      <<[name |-> "conceptual", ids |-> <<"c">>],
        [name |-> "technical", ids |-> <<>>]>> }

SearchDocs ==
    { [nodes |-> nodes, edges |-> <<EdgeAB>>, layers |-> layers] :
        nodes \in {<<NodeA, NodeB, NodeC>>, <<NodeC, NodeB, NodeA>>},
        layers \in SearchLayers }
    \cup { [nodes |-> <<NodeA, NodeB, NodeC>>, edges |-> <<EdgeAB>>] }

(* the optional arguments of search_graph: each is given or left out *)
SearchOptions ==
    { [k \in keys |-> CASE k = "type"  -> "Concept"
                        [] k = "layer" -> layer
                        [] k = "limit" -> limit] :
        keys \in SUBSET {"type", "layer", "limit"},
        layer \in {"conceptual", "technical", "nolayer"},
        limit \in 0..MaxLimit }

SearchArgs ==
    { [k \in {"graph_path", "query"} \cup DOMAIN options |->
          CASE k = "graph_path" -> G
            [] k = "query"      -> query
            [] OTHER            -> options[k]] :
        query \in {"", "a", "B", "zz"}, options \in SearchOptions }

InitSearch ==
    /\ graphs = EmptyMap
    /\ \E doc \in SearchDocs : disk = [p \in {G} |-> doc]
    /\ lastCall = NoCall
    /\ lastResult = NoResult

NextSearch == \E args \in SearchArgs : search_graph(args)

SpecSearch == InitSearch /\ [][NextSearch]_vars

----------------------------------------------------------------------------
(* verifyGraph on a graph file that was edited by hand: edges that name
   nodes the file does not have, edges written twice, layers that list
   nodes the file does not have *)

EditedEdges ==
    { EdgeAB,
      [source |-> "a", target |-> "z", type |-> "calls"],
      [source |-> "z", target |-> "b", type |-> "calls"],
      [source |-> "z", target |-> "y", type |-> "calls"] }

EditedLayers ==
    { <<[name |-> "workflow", ids |-> <<"a">>],
        [name |-> "conceptual", ids |-> <<"b">>]>>,
      <<[name |-> "workflow", ids |-> <<"a", "z">>]>>,
      <<>> }

VerifyDocs ==
    { [nodes |-> nodes, edges |-> edges, layers |-> layers] :
        nodes  \in {<<NodeA, NodeB>>, <<NodeA>>},
        edges  \in UNION {[1..n -> EditedEdges] : n \in 0..MaxEdges},
        layers \in EditedLayers }

InitVerify ==
    /\ graphs = EmptyMap
    /\ \E doc \in VerifyDocs : disk = [p \in {G} |-> doc]
    /\ lastCall = NoCall
    /\ lastResult = NoResult

NextVerify == \E args \in VerifyArgs : verify_graph(args)

SpecVerify == InitVerify /\ [][NextVerify]_vars

----------------------------------------------------------------------------
(* Vocabulary of the properties *)

IsMutation(name) ==
    name \in {"add_node", "add_edge", "add_to_layer", "remove_node", "remove_edge"}

Failed(result, message) == result.isError /\ result.error.message = message

(* the number of occurrences of each element of a sequence *)
BagOf(s) == [x \in Range(s) |-> Cardinality({i \in DOMAIN s : s[i] = x})]

SameElements(s, t) == BagOf(s) = BagOf(t)

(* the four indexes of a graph hold exactly what its document holds *)
IndexesConsistent(g) ==
    /\ DOMAIN g.nodeById = {g.raw.nodes[i].id : i \in DOMAIN g.raw.nodes}
    /\ \A i \in DOMAIN g.raw.nodes : g.nodeById[g.raw.nodes[i].id] = g.raw.nodes[i]
    /\ \A t \in DOMAIN g.nodesByType \cup {g.raw.nodes[i].type : i \in DOMAIN g.raw.nodes} :
          SameElements(MapGetOr(g.nodesByType, t, <<>>),
                       SelectSeq(g.raw.nodes, LAMBDA n : n.type = t))
    /\ \A s \in DOMAIN g.edgesBySource \cup {g.raw.edges[i].source : i \in DOMAIN g.raw.edges} :
          SameElements(MapGetOr(g.edgesBySource, s, <<>>),
                       SelectSeq(g.raw.edges, LAMBDA e : e.source = s))
    /\ \A t \in DOMAIN g.edgesByTarget \cup {g.raw.edges[i].target : i \in DOMAIN g.raw.edges} :
          SameElements(MapGetOr(g.edgesByTarget, t, <<>>),
                       SelectSeq(g.raw.edges, LAMBDA e : e.target = t))

(* the graph the handler of a call on graphPath works on, from the state
   before the call *)
Acquired(graphPath) == loadGraph(graphs, disk, graphPath).graph

Cached(graphPath) == resolve(graphPath) \in DOMAIN graphs

----------------------------------------------------------------------------
(* C1: after every mutation call the four indexes are exactly consistent
   with the document: nodeById and nodesByType hold exactly the nodes of
   raw.nodes, and every bucket of edgesBySource / edgesByTarget holds
   exactly the edges of raw.edges with that source / target. *)
C1_IndexesConsistent ==
    \A p \in DOMAIN graphs : IndexesConsistent(graphs[p])

(* C2: after each call nodeById.size = raw.nodes.length, and every edge of
   raw.edges appears in exactly one bucket of edgesBySource and in exactly
   one bucket of edgesByTarget. *)
C2_SizesAndBuckets ==
    \A p \in DOMAIN graphs :
        LET g == graphs[p] IN
        /\ Cardinality(DOMAIN g.nodeById) = Len(g.raw.nodes)
        /\ \A i \in DOMAIN g.raw.edges :
              /\ Cardinality({k \in DOMAIN g.edgesBySource :
                                 Includes(g.edgesBySource[k], g.raw.edges[i])}) = 1
              /\ Cardinality({k \in DOMAIN g.edgesByTarget :
                                 Includes(g.edgesByTarget[k], g.raw.edges[i])}) = 1

(* an edge was added to a graph whose indexes hold stale entries *)
C2_Witness ==
    /\ lastCall.name = "add_edge" /\ ~lastResult.isError
    /\ Cached(G) /\ ~IndexesConsistent(graphs[G])
    /\ Len(graphs[G].raw.edges) >= 1

(* C3: a failed mutation call leaves the cache, the graph it works on
   (nodes, edges, layers with their names, the four indexes) and the disk
   exactly as they were when the call acquired the graph. *)
C3_FailedMutationChangesNothing ==
    [][(IsMutation(lastCall'.name) /\ lastResult'.isError) =>
          /\ graphs' = loadGraph(graphs, disk, lastCall'.arguments.graph_path).graphs
          /\ disk' = disk]_vars

(* add_to_layer was refused for a node that is already in the layer *)
C3_Witness ==
    /\ lastCall.name = "add_to_layer"
    /\ Failed(lastResult, "Node already in layer")

(* C4: addNode with an id that is already in the graph fails with "Node
   already exists" whatever the other fields are, and the numbers of nodes
   and edges stay the same. *)
C4_DuplicateIdRejected ==
    [][(/\ lastCall'.name = "add_node"
        /\ existsSync(disk, resolve(lastCall'.arguments.graph_path))
        /\ Get(lastCall'.arguments, "id")
               \in DOMAIN Acquired(lastCall'.arguments.graph_path).nodeById)
       => LET p    == resolve(lastCall'.arguments.graph_path)
              pre  == Acquired(p)
              post == graphs'[p]
          IN  /\ Failed(lastResult', "Node already exists")
              /\ Len(post.raw.nodes) = Len(pre.raw.nodes)
              /\ Len(post.raw.edges) = Len(pre.raw.edges)]_vars

(* a request with an existing id and no label was refused as a duplicate *)
C4_Witness ==
    /\ lastCall.name = "add_node"
    /\ "label" \notin DOMAIN lastCall.arguments
    /\ Failed(lastResult, "Node already exists")

HasTriple(edges, source, target, type) ==
    \E i \in DOMAIN edges :
        /\ edges[i].source = source
        /\ edges[i].target = target
        /\ Get(edges[i], "type") = type

NoDuplicateEdges(edges) ==
    \A i, j \in DOMAIN edges : EdgeKey(edges[i]) = EdgeKey(edges[j]) => i = j

(* C5: addEdge with a (source, target, type) that raw.edges already holds
   fails with "Edge already exists" and leaves the numbers of nodes and
   edges unchanged; so no two edges of raw.edges ever share a triple. *)
C5_DuplicateEdgeRejected ==
    /\ [](\A p \in DOMAIN graphs : NoDuplicateEdges(graphs[p].raw.edges))
    /\ [][(/\ lastCall'.name = "add_edge"
           /\ existsSync(disk, resolve(lastCall'.arguments.graph_path))
           /\ HasTriple(Acquired(lastCall'.arguments.graph_path).raw.edges,
                        Get(lastCall'.arguments, "source"),
                        Get(lastCall'.arguments, "target"),
                        Get(lastCall'.arguments, "type")))
          => LET p    == resolve(lastCall'.arguments.graph_path)
                 pre  == Acquired(p)
                 post == graphs'[p]
             IN  /\ Failed(lastResult', "Edge already exists")
                 /\ Len(post.raw.nodes) = Len(pre.raw.nodes)
                 /\ Len(post.raw.edges) = Len(pre.raw.edges)]_vars

(* an edge that the document holds was refused, next to another edge
   between the same two nodes *)
C5_Witness ==
    /\ lastCall.name = "add_edge"
    /\ Failed(lastResult, "Edge already exists")
    /\ Cached(G)
    /\ HasTriple(graphs[G].raw.edges, lastCall.arguments.source,
                 lastCall.arguments.target, lastCall.arguments.type)
    /\ Len(graphs[G].raw.edges) = 2

(* an issue of verifyGraph about an edge with an end that is no node *)
DanglingIssueAbout(issue, id) ==
    /\ issue.issue \in {"Edge has invalid source", "Edge has invalid target"}
    /\ (issue.source = id \/ issue.target = id)

(* C6: after a successful removeNode(id) no edge of raw.edges has id as its
   source or target, and verifyGraph reports no invalid source / invalid
   target issue that references id. *)
C6_CascadeDelete ==
    (lastCall.name = "remove_node" /\ ~lastResult.isError) =>
        LET g      == graphs[resolve(lastCall.arguments.graph_path)]
            id     == lastCall.arguments.node_id
            issues == verifyGraph(g).value.issues
        IN  /\ \A i \in DOMAIN g.raw.edges :
                  g.raw.edges[i].source # id /\ g.raw.edges[i].target # id
            /\ \A i \in DOMAIN issues : ~DanglingIssueAbout(issues[i], id)

(* a node was removed that had edges: an edge index still names it *)
C6_Witness ==
    /\ lastCall.name = "remove_node" /\ ~lastResult.isError
    /\ \E k \in DOMAIN graphs[G].edgesBySource :
          \E i \in DOMAIN graphs[G].edgesBySource[k] :
              graphs[G].edgesBySource[k][i].target = lastCall.arguments.node_id

(* C7: from a graph that verifies, after any sequence of mutation calls
   verifyGraph reports valid = true and no issue: every edge joins existing
   nodes, every layer entry is an existing node, no edge is a duplicate. *)
C7_StaysValid ==
    \A p \in DOMAIN graphs :
        LET g == graphs[p]
            v == verifyGraph(g).value
        IN  /\ v.valid /\ v.issues = <<>>
            /\ \A i \in DOMAIN g.raw.edges :
                  /\ g.raw.edges[i].source \in DOMAIN g.nodeById
                  /\ g.raw.edges[i].target \in DOMAIN g.nodeById
            /\ \A i \in DOMAIN g.raw.layers :
                  Range(g.raw.layers[i].ids) \subseteq DOMAIN g.nodeById
            /\ NoDuplicateEdges(g.raw.edges)

(* a node of a layer, with edges, was removed and added again, and the
   graph was then verified *)
C7_Witness ==
    /\ lastCall.name = "verify_graph" /\ ~lastResult.isError
    /\ lastResult.value.valid
    /\ ~IndexesConsistent(graphs[G])
    /\ Len(graphs[G].raw.nodes) = 2
    /\ \E i \in DOMAIN graphs[G].raw.layers : graphs[G].raw.layers[i].ids = <<>>

----------------------------------------------------------------------------
(* Persistence *)

SaveSucceeded(call, result) == call.name = "save_graph" /\ ~result.isError

(* the objects of an array as JSON values: a property that is undefined and
   a property that is absent are the same value *)
AsJSON(objs) == [i \in DOMAIN objs |-> DropUndefined(objs[i])]

(* C8: save followed by a fresh load of the same location yields a document
   with the same nodes, the same edges (as unordered collections) and the
   same layers as the in-memory document at the moment of the save. *)
C8_RoundTrip ==
    [][SaveSucceeded(lastCall', lastResult') =>
          LET p     == resolve(lastCall'.arguments.graph_path)
              saved == Acquired(p).raw
              fresh == loadGraph(graphs', disk', p).graph.raw
          IN  /\ SameElements(AsJSON(saved.nodes), fresh.nodes)
              /\ SameElements(AsJSON(saved.edges), fresh.edges)
              /\ "layers" \in DOMAIN fresh
              /\ fresh.layers = saved.layers]_vars

(* an edge a -> a was added after the edge a -> b and the document was
   saved with its edges sorted: the file lists a -> a first *)
C8_Witness ==
    /\ SaveSucceeded(lastCall, lastResult)
    /\ existsSync(disk, BackupPath(G))
    /\ disk[BackupPath(G)].edges = <<EdgeAB>>
    /\ Len(disk[G].edges) = 2
    /\ disk[G].edges[1].target = "a"
    /\ disk[G].edges[2] = EdgeAB

(* C9: after a successful save the cache has no entry for the location; the
   next call on it reads the file again and rebuilds the indexes, so a read
   answers from exactly what is on disk. *)
C9_SaveEvicts ==
    [][/\ SaveSucceeded(lastCall', lastResult') =>
              resolve(lastCall'.arguments.graph_path) \notin DOMAIN graphs'
       /\ (SaveSucceeded(lastCall, lastResult) /\ lastCall'.name = "verify_graph"
           /\ resolve(lastCall'.arguments.graph_path) = resolve(lastCall.arguments.graph_path))
          => LET p      == resolve(lastCall'.arguments.graph_path)
                 onDisk == BuildIndexes(JSONparse(readFileSync(disk, p)), p)
             IN  /\ graphs'[p] = onDisk
                 /\ ~lastResult'.isError
                 /\ lastResult'.value = verifyGraph(onDisk).value]_vars

(* a read after a save that changed the file *)
C9_Witness ==
    /\ lastCall.name = "verify_graph" /\ ~lastResult.isError
    /\ existsSync(disk, BackupPath(G))
    /\ disk[G] # disk[BackupPath(G)]
    /\ Cached(G) /\ graphs[G].raw = JSONparse(disk[G])
    /\ lastResult.value.stats.edges = 2

(* C10: a cache entry goes away only by a successful save of its location;
   a query, a failed mutation or a failed save keeps the cached graph (a
   failed save may have sorted its edges), so unsaved changes stay in it. *)
C10_EvictedOnlyBySave ==
    [][\A p \in DOMAIN graphs :
          LET savedNow == /\ SaveSucceeded(lastCall', lastResult')
                          /\ resolve(lastCall'.arguments.graph_path) = p
          IN  /\ p \notin DOMAIN graphs' => savedNow
              /\ (~savedNow /\ (lastResult'.isError \/ ~IsMutation(lastCall'.name)))
                 => /\ p \in DOMAIN graphs'
                    /\ [graphs'[p] EXCEPT !.raw.edges = graphs[p].raw.edges] = graphs[p]
                    /\ SameElements(graphs'[p].raw.edges, graphs[p].raw.edges)]_vars

(* the write of the graph file failed and the cache still holds a document
   that is not the one on disk *)
C10_Witness ==
    /\ lastCall.name = "save_graph"
    /\ Failed(lastResult, "write failed")
    /\ Cached(G)
    /\ JSONstringify(graphs[G].raw) # disk[G]
    /\ Len(graphs[G].raw.edges) = 2

----------------------------------------------------------------------------
(* The cache and the file system *)

(* a step of the handler: the cache or the response changes, the files do
   not (the handler writes files in save_graph only) *)
HandlerStep == disk' = disk /\ <<graphs, lastCall, lastResult>>' # <<graphs, lastCall, lastResult>>

(* C11: when the cache holds a graph for the resolved path, a call works on
   that cached graph whatever the state of the file: it is never answered
   with "Graph file not found", and a read leaves the cached graph as it was
   and answers from it. *)
C11_CachedNeedsNoFile ==
    [][(HandlerStep /\ Cached(lastCall'.arguments.graph_path)) =>
          LET p == resolve(lastCall'.arguments.graph_path) IN
          /\ ~Failed(lastResult', "Graph file not found")
          /\ lastCall'.name = "verify_graph" =>
                /\ p \in DOMAIN graphs' /\ graphs'[p] = graphs[p]
                /\ ~lastResult'.isError
                /\ lastResult'.value = verifyGraph(graphs[p]).value]_vars

(* a call of save_graph that reached saveGraph *)
SaveRan(call, result) ==
    call.name = "save_graph" /\ ~Failed(result, "Graph file not found")

WithBackup(call) == ~("backup" \in DOMAIN call.arguments /\ call.arguments.backup = FALSE)

(* C12: a save with backup = true of a file that exists leaves in the
   ".backup" sibling exactly the text the graph file had before this save,
   also when the write of the graph file then fails (the backup is written
   first); a save with backup = false leaves the backup location as it was. *)
C12_BackupHoldsPreviousFile ==
    [][SaveRan(lastCall', lastResult') =>
          LET p == resolve(lastCall'.arguments.graph_path)
              b == BackupPath(p)
          IN  IF WithBackup(lastCall')
              THEN /\ existsSync(disk', b)
                   /\ readFileSync(disk', b) = readFileSync(disk, p)
                   /\ lastResult'.isError => readFileSync(disk', p) = readFileSync(disk, p)
              ELSE /\ existsSync(disk', b) = existsSync(disk, b)
                   /\ existsSync(disk, b) => readFileSync(disk', b) = readFileSync(disk, b)]_vars

(* a second save with backup: the backup holds the file written by an
   earlier save, not the first file and not the file just written *)
C12_Witness ==
    /\ SaveSucceeded(lastCall, lastResult) /\ WithBackup(lastCall)
    /\ existsSync(disk, BackupPath(G))
    /\ disk[BackupPath(G)] # ScenarioDoc
    /\ disk[BackupPath(G)] # disk[G]

(* C13: a call other than save_graph (a query, verify_graph, a mutation,
   whether it succeeds or fails) leaves every file, the graph file and its
   backup included, exactly as it was. *)
C13_OnlySaveWrites ==
    [][lastCall'.name # "save_graph" => disk' = disk]_vars

(* after a save with backup a mutation changed the cached graph, which is
   now not what the file holds *)
C13_Witness ==
    /\ IsMutation(lastCall.name) /\ ~lastResult.isError
    /\ existsSync(disk, BackupPath(G))
    /\ disk[G] # ScenarioDoc
    /\ Cached(G) /\ JSONstringify(graphs[G].raw) # disk[G]

----------------------------------------------------------------------------
(* Paths *)

FindPathAnswered(call, result) == call.name = "find_path" /\ ~result.isError

(* the depth limit of a call of find_path *)
MaxDepthOf(call) ==
    IF "max_depth" \in DOMAIN call.arguments THEN call.arguments.max_depth
    ELSE DefaultMaxDepth

(* the edges of the document hold a directed path of at least one and at
   most k edges from one node to another *)
RECURSIVE ReachWithin(_, _, _, _)
ReachWithin(edges, from, to, k) ==
    /\ k >= 1
    /\ \E i \in DOMAIN edges :
          /\ edges[i].source = from
          /\ \/ edges[i].target = to
             \/ ReachWithin(edges, edges[i].target, to, k - 1)

(* C14: for fromId # toId, find_path answers with the empty list exactly
   when the edges of the document hold no directed path from fromId to toId
   of at most maxDepth edges. *)
C14_EmptyIffUnreachable ==
    (FindPathAnswered(lastCall, lastResult)
        /\ lastCall.arguments.from_id # lastCall.arguments.to_id) =>
        LET g == graphs[resolve(lastCall.arguments.graph_path)] IN
        (lastResult.value = <<>>) <=>
            ~ReachWithin(g.raw.edges, lastCall.arguments.from_id,
                         lastCall.arguments.to_id, MaxDepthOf(lastCall))

(* the single simple chain from a node to another, when the edges of the
   document out of the nodes of the chain are exactly the edges of the
   chain; the empty sequence when there is no such chain *)
RECURSIVE ChainTo(_, _, _, _)
ChainTo(edges, from, to, seen) ==
    LET out == SelectSeq(edges, LAMBDA e : e.source = from) IN
    IF Len(out) # 1 THEN <<>>
    ELSE LET next == out[1].target IN
         IF next = to
         THEN IF \E i \in DOMAIN edges : edges[i].source = to THEN <<>>
              ELSE <<from, to>>
         ELSE IF next \in seen THEN <<>>
         ELSE LET rest == ChainTo(edges, next, to, seen \cup {next}) IN
              IF rest = <<>> THEN <<>> ELSE <<from>> \o rest

(* C16: find_path from a node to itself answers [[a]] whatever the depth
   limit; and when the edges of the document out of the nodes of a chain
   from fromId to toId are exactly that chain, of at most maxDepth edges,
   find_path answers with exactly one path, the chain. *)
C16_TrivialPathAndChain ==
    FindPathAnswered(lastCall, lastResult) =>
        LET g     == graphs[resolve(lastCall.arguments.graph_path)]
            from  == lastCall.arguments.from_id
            to    == lastCall.arguments.to_id
            chain == ChainTo(g.raw.edges, from, to, {from})
        IN  /\ from = to => lastResult.value = <<<<from>>>>
            /\ (from # to /\ chain # <<>> /\ Len(chain) - 1 <= MaxDepthOf(lastCall))
                   => lastResult.value = <<chain>>

(* the simple directed paths of the document that extend path to a node,
   by at least one and at most k edges *)
RECURSIVE SimplePathsFrom(_, _, _, _)
SimplePathsFrom(edges, path, to, k) ==
    IF k = 0 THEN {}
    ELSE UNION { LET next == edges[i].target IN
                 IF next = to THEN {Append(path, next)}
                 ELSE IF next \in Range(path) THEN {}
                 ELSE SimplePathsFrom(edges, Append(path, next), to, k - 1) :
                 i \in {j \in DOMAIN edges : edges[j].source = path[Len(path)]} }

(* C15: find_path answers with at most 3 paths in non-decreasing length;
   the first has the least number of edges of all directed paths from
   fromId to toId; and no simple directed path within the depth limit that
   is missing from the answer is strictly shorter than a path of the
   answer. *)
C15_ThreeShortestPaths ==
    (FindPathAnswered(lastCall, lastResult)
        /\ lastCall.arguments.from_id # lastCall.arguments.to_id) =>
        LET g      == graphs[resolve(lastCall.arguments.graph_path)]
            from   == lastCall.arguments.from_id
            to     == lastCall.arguments.to_id
            paths  == lastResult.value
            simple == SimplePathsFrom(g.raw.edges, <<from>>, to, MaxDepthOf(lastCall))
        IN  /\ Len(paths) <= 3
            /\ \A i, j \in DOMAIN paths : i <= j => Len(paths[i]) <= Len(paths[j])
            /\ paths # <<>> => ~ReachWithin(g.raw.edges, from, to, Len(paths[1]) - 2)
            /\ \A missing \in simple \ Range(paths) :
                  \A i \in DOMAIN paths : Len(missing) >= Len(paths[i])

(* C17: no path of an answer of find_path has more than maxDepth edges
   (maxDepth + 1 node ids), for every maxDepth >= 0. *)
C17_DepthBoundsPaths ==
    FindPathAnswered(lastCall, lastResult) =>
        \A i \in DOMAIN lastResult.value :
            Len(lastResult.value[i]) - 1 <= MaxDepthOf(lastCall)

(* the answer holds a path of exactly maxDepth edges, and the document
   holds a longer simple path between the same nodes that it leaves out *)
C17_Witness ==
    /\ FindPathAnswered(lastCall, lastResult)
    /\ "max_depth" \in DOMAIN lastCall.arguments
    /\ \E i \in DOMAIN lastResult.value :
          Len(lastResult.value[i]) - 1 = lastCall.arguments.max_depth
    /\ \E longer \in SimplePathsFrom(graphs[G].raw.edges, <<lastCall.arguments.from_id>>,
                                      lastCall.arguments.to_id, DefaultMaxDepth) :
          Len(longer) - 1 > lastCall.arguments.max_depth

----------------------------------------------------------------------------
(* Search *)

SearchAnswered(call, result) == call.name = "search_graph" /\ ~result.isError

(* the members of a layer of the document; a layer that the document does
   not have has no member *)
MembersOf(raw, layer) ==
    IF layer \in LayerNames(raw.layers) THEN Range(LayerIds(raw.layers, layer)) ELSE {}

(* C18: when search_graph is given a layer, every node of the answer is a
   member of that layer of the document, whether or not the document has a
   layer of that name; when it is given a type, every node of the answer
   has that type. *)
C18_SearchFilters ==
    SearchAnswered(lastCall, lastResult) =>
        LET g    == graphs[resolve(lastCall.arguments.graph_path)]
            args == lastCall.arguments
        IN  \A i \in DOMAIN lastResult.value :
                /\ "layer" \in DOMAIN args =>
                       lastResult.value[i].id \in MembersOf(g.raw, args.layer)
                /\ "type" \in DOMAIN args => lastResult.value[i].type = args.type

(* a node passes the filters of a call of search_graph and its text holds
   the query *)
Matches(raw, node, args) ==
    /\ "type" \in DOMAIN args => Get(node, "type") = args.type
    /\ ~LayerExcludes(raw, Get(args, "layer"), node)
    /\ TextIncludes(toLowerCase(SearchText(node)), toLowerCase(Chars(args.query)))

(* C19: the answer of search_graph is the first min(limit, number of
   matches) matching nodes of raw.nodes, in document order, so it never
   holds more than limit nodes, for every limit >= 0 (20 when not given). *)
C19_DocumentOrderUpToLimit ==
    SearchAnswered(lastCall, lastResult) =>
        LET g       == graphs[resolve(lastCall.arguments.graph_path)]
            args    == lastCall.arguments
            limit   == IF "limit" \in DOMAIN args THEN args.limit ELSE DefaultLimit
            matches == SelectSeq(g.raw.nodes, LAMBDA n : Matches(g.raw, n, args))
        IN  /\ lastResult.value = JSONstringifyNodes(Take(matches, limit))
            /\ Len(lastResult.value) <= limit

----------------------------------------------------------------------------
(* Verification *)

(* the ends of the edges of the document that are no node of the graph, as
   pairs of the position of the edge and the end *)
DanglingEnds(g) ==
    {<<i, "source">> : i \in {j \in DOMAIN g.raw.edges :
                                g.raw.edges[j].source \notin DOMAIN g.nodeById}}
    \cup
    {<<i, "target">> : i \in {j \in DOMAIN g.raw.edges :
                                g.raw.edges[j].target \notin DOMAIN g.nodeById}}

IsEdgeIssue(issue) ==
    issue.issue \in {"Edge has invalid source", "Edge has invalid target"}

Names(issue, e) ==
    /\ IsEdgeIssue(issue)
    /\ issue.source = e.source /\ issue.target = e.target /\ issue.type = Get(e, "type")

(* C20: verify_graph answers valid = true exactly when its list of issues
   is empty, and the list is empty exactly when every edge of raw.edges has
   its source and its target in nodeById, every id of every layer is in
   nodeById and no (source, type, target) occurs twice in raw.edges,
   whatever the warnings; every end of an edge that is no node gives one
   issue that names the edge, so an edge with one such end gives valid =
   false and one issue. *)
C20_ValidIffNoIssues ==
    (lastCall.name = "verify_graph" /\ ~lastResult.isError) =>
        LET g == graphs[resolve(lastCall.arguments.graph_path)]
            v == lastResult.value
        IN  /\ v.valid <=> (v.issues = <<>>)
            /\ (v.issues = <<>>) <=>
                  /\ \A i \in DOMAIN g.raw.edges :
                        /\ g.raw.edges[i].source \in DOMAIN g.nodeById
                        /\ g.raw.edges[i].target \in DOMAIN g.nodeById
                  /\ \A i \in DOMAIN g.raw.layers :
                        Range(g.raw.layers[i].ids) \subseteq DOMAIN g.nodeById
                  /\ NoDuplicateEdges(g.raw.edges)
            /\ Cardinality({k \in DOMAIN v.issues : IsEdgeIssue(v.issues[k])})
                  = Cardinality(DanglingEnds(g))
            /\ \A end \in DanglingEnds(g) :
                  /\ ~v.valid
                  /\ \E k \in DOMAIN v.issues : Names(v.issues[k], g.raw.edges[end[1]])

(* an edge to a node that the file does not have was appended to the edges
   of the scenario graph: the one issue names it; the warnings of a graph
   that is valid are reached as well *)
C20_Witness ==
    /\ lastCall.name = "verify_graph" /\ ~lastResult.isError
    /\ Len(graphs[G].raw.edges) = 2 /\ graphs[G].raw.edges[1] = EdgeAB
    /\ ~lastResult.value.valid
    /\ Len(lastResult.value.issues) = 1
    /\ lastResult.value.issues[1].issue = "Edge has invalid target"
    /\ Names(lastResult.value.issues[1], graphs[G].raw.edges[2])

----------------------------------------------------------------------------
(* Verification and queries after mutations *)

(* the nodes of the document that no edge of the document starts from or
   ends at *)
NodesWithoutEdges(raw) ==
    SelectSeq(raw.nodes, LAMBDA n :
        \A i \in DOMAIN raw.edges :
            raw.edges[i].source # n.id /\ raw.edges[i].target # n.id)

(* C21: verify_graph counts as orphaned exactly the nodes of raw.nodes with
   no incoming and no outgoing edge in raw.edges: stats.orphaned is their
   number, and the warning about orphaned nodes is given exactly when that
   number is positive. *)
C21_OrphanedCount ==
    (lastCall.name = "verify_graph" /\ ~lastResult.isError) =>
        LET g == graphs[resolve(lastCall.arguments.graph_path)]
            v == lastResult.value
            n == Len(NodesWithoutEdges(g.raw))
        IN  /\ v.stats.orphaned = n
            /\ (\E k \in DOMAIN v.warnings : v.warnings[k].warning = "orphaned nodes")
                  <=> n > 0

----------------------------------------------------------------------------
(* A graph file without a layers field *)

NoLayersDoc == [nodes |-> <<NodeA, NodeB>>, edges |-> <<EdgeAB>>]

NoLayersSearchArgs ==
    { [graph_path |-> G, query |-> "b"],
      [graph_path |-> G, query |-> "b", layer |-> "workflow"] }

NoLayersGetNodeArgs ==
    { [graph_path |-> G, node_id |-> "a"], [graph_path |-> G, node_id |-> "z"] }

InitNoLayers ==
    /\ graphs = EmptyMap
    /\ disk = [p \in {G} |-> NoLayersDoc]
    /\ lastCall = NoCall
    /\ lastResult = NoResult

NextNoLayers ==
    \/ \E args \in StoreAddNodeArgs : add_node(args)
    \/ \E args \in StoreAddEdgeArgs : add_edge(args)
    \/ \E args \in StoreAddToLayerArgs : add_to_layer(args)
    \/ \E args \in StoreRemoveNodeArgs : remove_node(args)
    \/ \E args \in StoreRemoveEdgeArgs : remove_edge(args)
    \/ \E args \in StoreVerifyArgs : verify_graph(args)
    \/ \E args \in NoLayersSearchArgs : search_graph(args)
    \/ \E args \in NoLayersGetNodeArgs : get_node(args)
    \/ \E args \in SaveArgs : save_graph(args, "none")

SpecNoLayers == InitNoLayers /\ [][NextNoLayers]_vars

(* C22: a graph loaded from a file without a layers field has an empty
   layers mapping, and no operation on it fails for the want of one *)
C22_LayersDefaultEmpty ==
    /\ \A p \in DOMAIN graphs : "layers" \in DOMAIN graphs[p].raw
    /\ ~(lastResult.isError /\ lastResult.error.message = "TypeError")

(* C23: remove_edge fails with "Edge not found" when the document holds no
   edge with the triple asked for; a successful remove_edge takes exactly one
   edge, the one with that triple, out of the document and out of both edge
   indexes, and leaves every other edge, the nodes and the layers alone *)
C23_RemoveEdge ==
    [][(lastCall'.name = "remove_edge" /\ G \in DOMAIN graphs) =>
          LET a    == lastCall'.arguments
              pre  == graphs[G]
              post == graphs'[G]
              hit(e) == e.source = a.source /\ e.target = a.target
                        /\ Get(e, "type") = a.type
          IN  /\ ~HasTriple(pre.raw.edges, a.source, a.target, a.type)
                    => Failed(lastResult', "Edge not found")
              /\ ~lastResult'.isError =>
                    /\ Len(post.raw.edges) = Len(pre.raw.edges) - 1
                    /\ post.raw.edges = SelectSeq(pre.raw.edges, LAMBDA e : ~hit(e))
                    /\ post.raw.nodes = pre.raw.nodes
                    /\ post.raw.layers = pre.raw.layers
                    /\ \A k \in DOMAIN post.edgesBySource :
                          post.edgesBySource[k] =
                              SelectSeq(MapGetOr(pre.edgesBySource, k, <<>>),
                                        LAMBDA e : ~hit(e))
                    /\ \A k \in DOMAIN post.edgesByTarget :
                          post.edgesByTarget[k] =
                              SelectSeq(MapGetOr(pre.edgesByTarget, k, <<>>),
                                        LAMBDA e : ~hit(e))]_vars

----------------------------------------------------------------------------
(* Two graph files, named by relative and absolute paths *)

H == "/w/h.json"

Spellings == {"g.json", G, "h.json"}

PathsAddNodeArgs ==
    { [graph_path |-> s, id |-> "c", type |-> "Concept", label |-> "C"] :
        s \in Spellings }

PathsRemoveNodeArgs == { [graph_path |-> s, node_id |-> "b"] : s \in Spellings }

PathsGetNodeArgs ==
    { [graph_path |-> s, node_id |-> n] : s \in Spellings, n \in {"b", "c"} }

PathsSaveArgs == { [graph_path |-> s] : s \in Spellings }

InitPaths ==
    /\ graphs = EmptyMap
    /\ disk = (G :> ScenarioDoc) @@ (H :> ScenarioDoc)
    /\ lastCall = NoCall
    /\ lastResult = NoResult

NextPaths ==
    \/ \E args \in PathsAddNodeArgs : add_node(args)
    \/ \E args \in PathsRemoveNodeArgs : remove_node(args)
    \/ \E args \in PathsGetNodeArgs : get_node(args)
    \/ \E args \in PathsSaveArgs : save_graph(args, "none")

SpecPaths == InitPaths /\ [][NextPaths]_vars

(* C24: the cache holds one graph per file, under the resolved absolute
   path of the file: a call works on the graph of the file its path resolves
   to, however the path is spelled, and so reads the changes made under
   another spelling that are not saved yet; the graph of any other file is
   left as it was *)
C24_OneHandlePerLocation ==
    [][LET a == lastCall'.arguments
           p == resolve(a.graph_path)
       IN  /\ \A q \in DOMAIN graphs' : IsAbsolute(q) /\ graphs'[q].path = q
           /\ DOMAIN graphs' \subseteq DOMAIN graphs \cup {p}
           /\ \A q \in DOMAIN graphs \ {p} :
                 q \in DOMAIN graphs' /\ graphs'[q] = graphs[q]
           /\ (lastCall'.name = "get_node" /\ p \in DOMAIN graphs) =>
                 IF a.node_id \in DOMAIN graphs[p].nodeById
                 THEN /\ ~lastResult'.isError
                      /\ lastResult'.value.node =
                             DropUndefined(graphs[p].nodeById[a.node_id])
                 ELSE Failed(lastResult', "Node not found")]_vars

(* get_node by the relative path of a file answers with a node that is in
   the cached graph only, while the graph of the other file is cached too *)
C24_Witness ==
    /\ lastCall.name = "get_node"
    /\ lastCall.arguments.graph_path = "g.json"
    /\ ~lastResult.isError
    /\ lastResult.value.node.id = "c"
    /\ \A i \in DOMAIN disk[G].nodes : disk[G].nodes[i].id # "c"
    /\ {G, H} \subseteq DOMAIN graphs
    /\ graphs[G] # graphs[H]

----------------------------------------------------------------------------
(* The read tools on a graph that is changed between the calls *)

ReadGetNodeArgs == { [graph_path |-> G, node_id |-> n] : n \in {"a", "b", "z"} }

ReadNeighborsArgs ==
    { [graph_path |-> G, node_id |-> n] : n \in {"a", "b"} }
    \cup { [graph_path |-> G, node_id |-> n, direction |-> d] :
              n \in {"a", "b"}, d \in {"incoming", "outgoing", "both"} }
    \cup { [graph_path |-> G, node_id |-> n, edge_type |-> "calls"] : n \in {"a", "b"} }

ReadTypesArgs == { [graph_path |-> G] }

NextRead ==
    \/ \E args \in QueryAddNodeArgs : add_node(args)
    \/ \E args \in QueryAddEdgeArgs : add_edge(args)
    \/ \E args \in QueryRemoveNodeArgs : remove_node(args)
    \/ \E args \in QueryRemoveEdgeArgs : remove_edge(args)
    \/ \E args \in ReadGetNodeArgs : get_node(args)
    \/ \E args \in ReadNeighborsArgs : get_neighbors(args)
    \/ \E args \in ReadTypesArgs : get_node_types(args)

SpecRead == Init /\ [][NextRead]_vars

(* the entries for the edges of the document that have id at the end given,
   are of the type asked for if one is, and whose other end is a node *)
EntriesOf(g, id, end, other, edgeType, direction) ==
    LET edges == SelectSeq(g.raw.edges, LAMBDA e :
                     /\ e[end] = id
                     /\ (edgeType = undefined \/ Get(e, "type") = edgeType)
                     /\ e[other] \in DOMAIN g.nodeById)
    IN  [i \in DOMAIN edges |->
            [node      |-> DropUndefined(g.nodeById[edges[i][other]]),
             edgeType  |-> Get(edges[i], "type"),
             direction |-> direction]]

(* C25: get_neighbors answers with one entry per edge of the document that
   has the node at the end asked for, is of the type asked for if one is
   given, and has a node at its other end: the incoming ones first, then the
   outgoing ones, each in the order of the edges of the document; every
   entry carries a node of nodeById *)
C25_Neighbors ==
    (lastCall.name = "get_neighbors" /\ ~lastResult.isError) =>
        LET a         == lastCall.arguments
            g         == graphs[resolve(a.graph_path)]
            direction == IF "direction" \in DOMAIN a THEN a.direction ELSE "both"
            edgeType  == Get(a, "edge_type")
            incoming  == IF direction \in {"incoming", "both"}
                         THEN EntriesOf(g, a.node_id, "target", "source", edgeType, "incoming")
                         ELSE <<>>
            outgoing  == IF direction \in {"outgoing", "both"}
                         THEN EntriesOf(g, a.node_id, "source", "target", edgeType, "outgoing")
                         ELSE <<>>
        IN  /\ lastResult.value = incoming \o outgoing
            /\ \A i \in DOMAIN lastResult.value :
                  \E id \in DOMAIN g.nodeById :
                      lastResult.value[i].node = DropUndefined(g.nodeById[id])

(* the entries getNode gives for the edges of the document that have id at
   the end given: the node at the other end with the type of the edge *)
ResolvedEdges(g, id, end, other) ==
    LET edges == SelectSeq(g.raw.edges, LAMBDA e : e[end] = id)
    IN  [i \in DOMAIN edges |->
            IF edges[i][other] \in DOMAIN g.nodeById
            THEN DropUndefined(MapSet(g.nodeById[edges[i][other]], "edgeType",
                                      Get(edges[i], "type")))
            ELSE EmptyMap]

(* C26: get_node answers "Node not found" exactly for an id that nodeById
   does not hold; otherwise incoming has one entry per edge of the document
   that ends at the node and outgoing one per edge that starts from it, and
   every entry is the record of a node of the graph, with its id, and the
   type of the edge *)
C26_GetNode ==
    (lastCall.name = "get_node" /\ Cached(lastCall.arguments.graph_path)) =>
        LET a == lastCall.arguments
            g == graphs[resolve(a.graph_path)]
            v == lastResult.value
        IN  /\ Failed(lastResult, "Node not found") <=> a.node_id \notin DOMAIN g.nodeById
            /\ ~lastResult.isError =>
                  /\ v.node = DropUndefined(g.nodeById[a.node_id])
                  /\ v.incoming = ResolvedEdges(g, a.node_id, "target", "source")
                  /\ v.outgoing = ResolvedEdges(g, a.node_id, "source", "target")
                  /\ \A i \in DOMAIN v.incoming : "id" \in DOMAIN v.incoming[i]
                  /\ \A i \in DOMAIN v.outgoing : "id" \in DOMAIN v.outgoing[i]

(* the number of nodes of the document of each type that a node of the
   document has *)
TypeCounts(raw) ==
    [type \in {raw.nodes[i].type : i \in DOMAIN raw.nodes} |->
        Cardinality({i \in DOMAIN raw.nodes : raw.nodes[i].type = type})]

(* C28: get_node_types answers with exactly the types that a node of the
   document has, each with the number of the nodes of the document of that
   type *)
C28_NodeTypes ==
    (lastCall.name = "get_node_types" /\ ~lastResult.isError) =>
        lastResult.value = TypeCounts(graphs[resolve(lastCall.arguments.graph_path)].raw)

----------------------------------------------------------------------------
(* findPath on a graph with cycles and self-loops: the graph file holds the
   six nodes and any selection of the edges below, in this order *)

CycleEdges == <<PathEdge("a", "a"), PathEdge("a", "b"), PathEdge("b", "a"),
                PathEdge("b", "b"), PathEdge("b", "c"), PathEdge("c", "a"),
                PathEdge("c", "t"), PathEdge("b", "t"), PathEdge("t", "a")>>

CycleDocs ==
    { [nodes  |-> PathNodes,
       edges  |-> SelectSeq(CycleEdges, LAMBDA e : e \in chosen),
       layers |-> <<>>] : chosen \in SUBSET Range(CycleEdges) }

InitCycle ==
    /\ graphs = EmptyMap
    /\ \E doc \in CycleDocs : disk = [p \in {G} |-> doc]
    /\ lastCall = NoCall
    /\ lastResult = NoResult

NextCycle == \E args \in FindPathArgs : find_path(args)

SpecCycle == InitCycle /\ [][NextCycle]_vars

(* C27: no path that find_path answers with holds a node twice *)
C27_NoNodeTwice ==
    FindPathAnswered(lastCall, lastResult) =>
        \A k \in DOMAIN lastResult.value :
            \A i, j \in DOMAIN lastResult.value[k] :
                lastResult.value[k][i] = lastResult.value[k][j] => i = j

(* find_path from a to t answers with the path over b and c on a graph
   where b has a self-loop and both b and c have an edge back to a *)
C27_Witness ==
    /\ FindPathAnswered(lastCall, lastResult)
    /\ lastCall.arguments.from_id = "a"
    /\ \E k \in DOMAIN lastResult.value : lastResult.value[k] = <<"a", "b", "c", "t">>
    /\ LET edges == graphs[G].raw.edges
       IN  /\ HasTriple(edges, "b", "b", "calls")
           /\ HasTriple(edges, "b", "a", "calls")
           /\ HasTriple(edges, "c", "a", "calls")

----------------------------------------------------------------------------
(* Layers with several nodes *)

LayersDoc ==
    [nodes  |-> <<NodeA, NodeB, NodeC>>,
     edges  |-> <<EdgeAB>>,
     layers |-> <<[name |-> "workflow", ids |-> <<"a", "c">>],
                  [name |-> "conceptual", ids |-> <<"b", "c">>]>>]

LayersAddToLayerArgs ==
    { [graph_path |-> G, node_id |-> n, layer |-> l] :
        n \in {"a", "b", "z"}, l \in {"workflow", "technical"} }

LayersRemoveNodeArgs == { [graph_path |-> G, node_id |-> n] : n \in {"a", "b", "z"} }

InitLayers ==
    /\ graphs = EmptyMap
    /\ disk = [p \in {G} |-> LayersDoc]
    /\ lastCall = NoCall
    /\ lastResult = NoResult

NextLayers ==
    \/ \E args \in QueryAddNodeArgs : add_node(args)
    \/ \E args \in LayersAddToLayerArgs : add_to_layer(args)
    \/ \E args \in LayersRemoveNodeArgs : remove_node(args)

SpecLayers == InitLayers /\ [][NextLayers]_vars

(* C29: a successful remove_node takes the node out of every layer and
   changes nothing else of the layers: no layer lists the node afterwards,
   the other ids of every layer stay, in their order, and the layers are the
   same ones, a layer that is left empty included *)
C29_RemoveNodeLayers ==
    [][(lastCall'.name = "remove_node" /\ ~lastResult'.isError) =>
          LET id   == lastCall'.arguments.node_id
              pre  == Acquired(lastCall'.arguments.graph_path).raw.layers
              post == graphs'[resolve(lastCall'.arguments.graph_path)].raw.layers
          IN  /\ Len(post) = Len(pre)
              /\ \A i \in DOMAIN pre :
                    /\ post[i].name = pre[i].name
                    /\ ~Includes(post[i].ids, id)
                    /\ post[i].ids = SelectSeq(pre[i].ids, LAMBDA x : x # id)]_vars

(* remove_node has left a layer empty and one with two ids *)
C29_Witness ==
    /\ lastCall.name = "remove_node"
    /\ ~lastResult.isError
    /\ LET layers == graphs[G].raw.layers
       IN  /\ \E i \in DOMAIN layers : layers[i].ids = <<>>
           /\ \E i \in DOMAIN layers : Len(layers[i].ids) = 2

(* no layer lists a node twice *)
NoRepeatedIds(layers) ==
    \A k \in DOMAIN layers :
        \A i, j \in DOMAIN layers[k].ids : layers[k].ids[i] = layers[k].ids[j] => i = j

(* C30: add_to_layer fails with "Node not found" for an id that is no node,
   and creates no layer then; it fails with "Node already in layer" for a
   node the layer lists already; otherwise it succeeds and puts the node at
   the end of the list of the layer, which is a new last layer when the name
   is new. No layer ever lists a node twice *)
C30_AddToLayer ==
    [][/\ \A p \in DOMAIN graphs' : NoRepeatedIds(graphs'[p].raw.layers)
       /\ lastCall'.name = "add_to_layer" =>
          LET a    == lastCall'.arguments
              g    == Acquired(a.graph_path)
              pre  == g.raw.layers
              post == graphs'[resolve(a.graph_path)].raw.layers
          IN  IF a.node_id \notin DOMAIN g.nodeById
              THEN Failed(lastResult', "Node not found") /\ post = pre
              ELSE IF \E i \in DOMAIN pre :
                          pre[i].name = a.layer /\ Includes(pre[i].ids, a.node_id)
              THEN Failed(lastResult', "Node already in layer") /\ post = pre
              ELSE /\ ~lastResult'.isError
                   /\ IF a.layer \in LayerNames(pre)
                      THEN post = [i \in DOMAIN pre |->
                                      IF pre[i].name = a.layer
                                      THEN [pre[i] EXCEPT !.ids = Append(@, a.node_id)]
                                      ELSE pre[i]]
                      ELSE post = Append(pre, [name |-> a.layer, ids |-> <<a.node_id>>])]_vars

(* add_to_layer has put a node at the end of a layer that it did not create
   itself, and the layer "technical" was new when its first node went in *)
C30_Witness ==
    /\ lastCall.name = "add_to_layer"
    /\ ~lastResult.isError
    /\ LET layers == graphs[G].raw.layers
       IN  /\ \E i \in DOMAIN layers :
                 /\ layers[i].name = lastCall.arguments.layer
                 /\ Len(layers[i].ids) >= 2
                 /\ layers[i].ids[Len(layers[i].ids)] = lastCall.arguments.node_id
           /\ Len(layers) = 3
           /\ layers[3].name = "technical"

----------------------------------------------------------------------------
(* Saving *)

WithSort(call) == ~("sort" \in DOMAIN call.arguments /\ call.arguments.sort = FALSE)

(* ascending by source, then by target *)
Ascending(edges) ==
    \A i, j \in DOMAIN edges :
        i < j => \/ Rank(edges[i].source) < Rank(edges[j].source)
                 \/ /\ edges[i].source = edges[j].source
                    /\ Rank(edges[i].target) <= Rank(edges[j].target)

(* C31: a save with sort = true leaves the edges of the document in
   ascending order of source and target, the same edges as before, and
   leaves every bucket of the indexes as it was; with sort = false the edges
   keep their order. The document is the one written to the file and, when
   the write fails, the one that stays in the cache *)
C31_SortIsCosmetic ==
    [][SaveRan(lastCall', lastResult') =>
          LET p     == resolve(lastCall'.arguments.graph_path)
              pre   == Acquired(p)
              kept  == lastResult'.isError
              edges == IF kept THEN AsJSON(graphs'[p].raw.edges) ELSE disk'[p].edges
          IN  /\ IF WithSort(lastCall')
                 THEN Ascending(edges) /\ SameElements(edges, AsJSON(pre.raw.edges))
                 ELSE edges = AsJSON(pre.raw.edges)
              /\ kept => /\ graphs'[p].edgesBySource = pre.edgesBySource
                         /\ graphs'[p].edgesByTarget = pre.edgesByTarget
                         /\ graphs'[p].nodeById = pre.nodeById
                         /\ graphs'[p].nodesByType = pre.nodesByType
                         /\ graphs'[p].raw.nodes = pre.raw.nodes]_vars

(* a save with sort = true whose write failed: the cached document lists
   a -> a before a -> b, the bucket of a still in the order the edges were
   added *)
C31_Witness ==
    /\ lastCall.name = "save_graph" /\ WithSort(lastCall)
    /\ Failed(lastResult, "write failed")
    /\ Cached(G)
    /\ Len(graphs[G].raw.edges) = 2
    /\ graphs[G].raw.edges[2] = EdgeAB
    /\ graphs[G].edgesBySource["a"][1] = EdgeAB

----------------------------------------------------------------------------
(* Saving while another process removes the graph file *)

UnlinkFaults == {"none", "unlinked"}

NextUnlink ==
    \/ \E args \in StoreAddNodeArgs : add_node(args)
    \/ \E args \in StoreAddEdgeArgs : add_edge(args)
    \/ \E args \in StoreRemoveNodeArgs : remove_node(args)
    \/ \E args \in StoreVerifyArgs : verify_graph(args)
    \/ \E args \in SaveArgs, fault \in UnlinkFaults : save_graph(args, fault)

SpecUnlink == Init /\ [][NextUnlink]_vars

(* C32: the backup field of the answer of a successful save is the
   ".backup" path when this save has made the backup, and null when it has
   not: a path that is named holds the text the graph file had, and with
   backup = false no path is named *)
C32_BackupNamedOnlyIfMade ==
    [][SaveSucceeded(lastCall', lastResult') =>
          LET p == resolve(lastCall'.arguments.graph_path)
              b == BackupPath(p)
          IN  /\ lastResult'.value.backup \in {b, "null"}
              /\ ~WithBackup(lastCall') => lastResult'.value.backup = "null"
              /\ lastResult'.value.backup = b =>
                    /\ existsSync(disk', b)
                    /\ readFileSync(disk', b) = readFileSync(disk, p)
              /\ lastResult'.value.backup = "null" =>
                    /\ existsSync(disk', b) = existsSync(disk, b)
                    /\ existsSync(disk, b) => readFileSync(disk', b) = readFileSync(disk, b)]_vars

----------------------------------------------------------------------------
(* Mutations after a node was removed *)

(* C33: add_edge between two nodes of the graph succeeds, and in particular
   is not refused as a duplicate, when the document holds no edge with the
   source, target and type asked for *)
C33_NoFalseDuplicate ==
    [][lastCall'.name = "add_edge" =>
          LET a == lastCall'.arguments
              g == Acquired(a.graph_path)
          IN  (/\ a.source \in DOMAIN g.nodeById
               /\ a.target \in DOMAIN g.nodeById
               /\ ~HasTriple(g.raw.edges, a.source, a.target, a.type))
              => /\ ~Failed(lastResult', "Edge already exists")
                 /\ ~lastResult'.isError]_vars

(* what the queries answer on a graph, the answers that list edges taken
   without their order *)
ObservedIds == {"a", "b", "z"}

ObservedTriples ==
    { <<s, t, ty>> : s \in {"a", "b"}, t \in {"a", "b"}, ty \in {"includes", "calls"} }

NodeAnswer(graph, id) ==
    LET out == getNode(graph, id) IN
    IF out.threw THEN [error |-> out.error]
    ELSE IF out.value = NoNode THEN NoNode
    ELSE [node     |-> DropUndefined(out.value.node),
          incoming |-> BagOf(JSONstringifyNodes(out.value.incoming)),
          outgoing |-> BagOf(JSONstringifyNodes(out.value.outgoing)),
          layer    |-> out.value.layer]

NeighborsAnswer(graph, id) ==
    LET entries == getNeighbors(graph, id, EmptyMap)
    IN  BagOf([i \in DOMAIN entries |-> [entries[i] EXCEPT !.node = DropUndefined(@)]])

VerifyAnswer(graph) ==
    LET out == verifyGraph(graph) IN
    IF out.threw THEN [error |-> out.error]
    ELSE [valid    |-> out.value.valid,
          issues   |-> BagOf(out.value.issues),
          warnings |-> out.value.warnings,
          stats    |-> out.value.stats]

LayerAnswer(graph, layerName) ==
    LET out == listLayer(graph, layerName) IN
    IF out.threw THEN [error |-> out.error] ELSE [nodes |-> out.value]

Observed(graph) ==
    [nodes     |-> [id \in ObservedIds |-> NodeAnswer(graph, id)],
     neighbors |-> [id \in ObservedIds |-> NeighborsAnswer(graph, id)],
     paths     |-> [pair \in ObservedIds \X ObservedIds |->
                       Range(findPath(graph, pair[1], pair[2], DefaultMaxDepth))],
     types     |-> getNodeTypes(graph),
     layers    |-> [l \in {"workflow", "conceptual", "technical"} |->
                       LayerAnswer(graph, l)],
     verify    |-> VerifyAnswer(graph),
     addEdge   |-> [t \in ObservedTriples |->
                       addEdge(graph, [source |-> t[1], target |-> t[2],
                                       type |-> t[3]]).threw],
     removeEdge |-> [t \in ObservedTriples |->
                       removeEdge(graph, t[1], t[2], t[3]).threw]]

(* C34: every query answers on the graph loaded again after a successful
   save as it answered on the graph just before the save, the order of the
   edges aside *)
C34_SaveIsTransparent ==
    [][SaveSucceeded(lastCall', lastResult') =>
          LET p == resolve(lastCall'.arguments.graph_path)
          IN  Observed(loadGraph(graphs', disk', p).graph) = Observed(Acquired(p))]_vars

(* C35: every path find_path answers with, for a start other than the
   target, runs over nodes of the graph and along edges of the document *)
C35_PathsAreReal ==
    (FindPathAnswered(lastCall, lastResult)
        /\ lastCall.arguments.from_id # lastCall.arguments.to_id) =>
        LET g == graphs[resolve(lastCall.arguments.graph_path)]
        IN  \A k \in DOMAIN lastResult.value :
                LET path == lastResult.value[k]
                IN  /\ \A i \in DOMAIN path : path[i] \in DOMAIN g.nodeById
                    /\ \A i \in 1..(Len(path) - 1) :
                          \E e \in DOMAIN g.raw.edges :
                              /\ g.raw.edges[e].source = path[i]
                              /\ g.raw.edges[e].target = path[i + 1]

(* C36: the paths of one answer of find_path are pairwise different *)
C36_PathsDistinct ==
    FindPathAnswered(lastCall, lastResult) =>
        \A i, j \in DOMAIN lastResult.value :
            lastResult.value[i] = lastResult.value[j] => i = j

----------------------------------------------------------------------------
(* The loop of findPath, on the graphs with cycles *)

LoopArgs ==
    { [graph_path |-> G, from_id |-> "a", to_id |-> "t"],
      [graph_path |-> G, from_id |-> "a", to_id |-> "t", max_depth |-> 0],
      [graph_path |-> G, from_id |-> "b", to_id |-> "a", max_depth |-> MaxDepthArg],
      [graph_path |-> G, from_id |-> "a", to_id |-> "a"] }

NextLoop ==
    \/ \E args \in LoopArgs : findPath_enter(args)
    \/ findPath_iterate
    \/ findPath_return

(* findPath runs to its end without waiting for anything *)
SpecLoop ==
    /\ InitCycle
    /\ [][NextLoop]_vars
    /\ WF_vars(findPath_iterate)
    /\ WF_vars(findPath_return)

Running == "running" \in DOMAIN lastResult

(* C37: findPath comes to its end on every graph and for every maxDepth: a
   call whose loop runs is answered. While the loop runs every path of the
   queue ends at a node of its own, which is in the visited set: no node is
   put into the queue twice *)
C37_Terminates ==
    /\ [](Running =>
             LET st == lastResult.running IN
             \A i, j \in DOMAIN st.queue :
                 /\ st.queue[i][Len(st.queue[i])] \in st.visited
                 /\ st.queue[i][Len(st.queue[i])] = st.queue[j][Len(st.queue[j])] => i = j)
    /\ (Running ~> (lastCall.name = "find_path" /\ "value" \in DOMAIN lastResult))

(* the loop has run on a graph where every edge but one lies on a cycle or
   is a self-loop, and has answered with the path over b and c *)
C37_Witness ==
    /\ lastCall.name = "find_path"
    /\ "value" \in DOMAIN lastResult
    /\ \E k \in DOMAIN lastResult.value : lastResult.value[k] = <<"a", "b", "c", "t">>
    /\ LET edges == graphs[G].raw.edges
       IN  /\ HasTriple(edges, "a", "a", "calls")
           /\ HasTriple(edges, "b", "a", "calls")
           /\ HasTriple(edges, "b", "b", "calls")
           /\ HasTriple(edges, "c", "a", "calls")

----------------------------------------------------------------------------
(* The graph file rewritten by another process while its graph is cached *)

NextOutOfBand ==
    \/ \E args \in StoreAddNodeArgs : add_node(args)
    \/ \E args \in StoreRemoveNodeArgs : remove_node(args)
    \/ \E args \in StoreVerifyArgs : verify_graph(args)
    \/ \E args \in SaveArgs : save_graph(args, "none")
    \/ \E doc \in {ScenarioDoc, EditedDoc} : fileWritten(G, doc)

SpecOutOfBand == Init /\ [][NextOutOfBand]_vars

(* C38: while the graph of a file is cached, reads and mutations work on the
   cached document whatever has been written to the file since; the next
   save writes the cached document over the file, whose former text is then
   in the ".backup" file only, and only with backup = true; the first call
   after the save reads the file *)
C38_OutOfBandChange ==
    [][lastCall' # lastCall \/ lastResult' # lastResult \/ graphs' # graphs =>
          LET a      == lastCall'.arguments
              p      == resolve(a.graph_path)
              b      == BackupPath(p)
              onDisk == BuildIndexes(JSONparse(readFileSync(disk, p)), p)
              g      == IF p \in DOMAIN graphs THEN graphs[p] ELSE onDisk
          IN  /\ lastCall'.name = "verify_graph" =>
                    /\ lastResult'.value = verifyGraph(g).value
                    /\ graphs'[p] = g
                    /\ disk' = disk
              /\ lastCall'.name = "add_node" =>
                    /\ lastResult'.isError = addNode(g, a).threw
                    /\ graphs'[p] = addNode(g, a).graph
                    /\ disk' = disk
              /\ lastCall'.name = "remove_node" =>
                    /\ lastResult'.isError = removeNode(g, a.node_id).threw
                    /\ graphs'[p] = removeNode(g, a.node_id).graph
                    /\ disk' = disk
              /\ lastCall'.name = "save_graph" =>
                    /\ ~lastResult'.isError
                    /\ p \notin DOMAIN graphs'
                    /\ SameElements(disk'[p].nodes, AsJSON(g.raw.nodes))
                    /\ SameElements(disk'[p].edges, AsJSON(g.raw.edges))
                    /\ disk'[p].layers = g.raw.layers
                    /\ IF WithBackup(lastCall')
                       THEN existsSync(disk', b) /\ disk'[b] = disk[p]
                       ELSE /\ existsSync(disk', b) = existsSync(disk, b)
                            /\ existsSync(disk, b) => disk'[b] = disk[b]]_vars

(* a save with backup has written a cached document, changed since it was
   loaded, over a file that another process had rewritten: the text of the
   other process is in the backup file *)
C38_Witness ==
    /\ SaveSucceeded(lastCall, lastResult) /\ WithBackup(lastCall)
    /\ existsSync(disk, BackupPath(G))
    /\ disk[BackupPath(G)] = EditedDoc
    /\ disk[G] \notin {EditedDoc, ScenarioDoc}
    /\ Len(disk[G].nodes) = 2

====
